---- MODULE Spec2Model ----
(***************************************************************************)
(* A model of the man-page reader: the tokenizer (nextToken), the macro    *)
(* interpreter (parser.parseLine), the document builder (parser.parseMdoc) *)
(* and the span merge pass (manPage.mergeSpans).                           *)
(*                                                                         *)
(* Strings are sequences of one-character strings, so that indexing,       *)
(* slicing and concatenation are the operations the Go code performs.      *)
(***************************************************************************)
EXTENDS Integers, Sequences, FiniteSets, TLC

VARIABLES
    tkInput,    \* tokenizer: the input string handed to the first call
    tkPc,       \* tokenizer: "start", "one" (after one call), "two"
    tkFirst,    \* tokenizer: result of nextToken(tkInput)
    tkSecond,   \* tokenizer: result of nextToken(tkFirst.rest)
    page,       \* the manPage being built, then merged
    status,     \* "parsing", "returned" (parseMdoc returned), "panic", "idle"
    merges,     \* number of mergeSpans passes run on page
    origPage,   \* page as it was before the first merge pass
    firstMerge, \* page as it was after the first merge pass
    builder,    \* parseMdoc's locals: page, currentSection, lists, savedName, parser
    hist,       \* the input lines parseMdoc has read so far, in order
    rendered,   \* the outcome of rendering: text, or a panic
    ui,         \* the interactive shell's model (window, viewport, focus)
    interp      \* parseLine's loop: the line's words, the loop's locals, the case last taken

tokVars == <<tkInput, tkPc, tkFirst, tkSecond>>

docVars == <<page, status, merges, origPage, firstMerge, builder, hist>>

viewVars == <<rendered, ui, interp>>

vars == <<tokVars, docVars, viewVars>>

(***************************************************************************)
(* Characters and strings.                                                 *)
(***************************************************************************)
BS == "\\"
DQ == "\""
SP == " "

\* input[lo:hi] of Go (0-based, hi exclusive) is Slice(input, lo+1, hi) here.
Slice(s, from, to) == SubSeq(s, from, to)

\* input[i:] of Go, with i the 1-based index of the first character kept.
SliceFrom(s, from) == SubSeq(s, from, Len(s))

(***************************************************************************)
(* nextToken (src/doc.go:744-774).  The result is a record; panic is TRUE  *)
(* when the Go code indexes or slices past the end of the input (a         *)
(* run-time panic, which aborts the caller).                               *)
(***************************************************************************)
TokRet(token, rest) == [panic |-> FALSE, token |-> token, rest |-> rest]

TokPanic == [panic |-> TRUE, token |-> <<>>, rest |-> <<>>]

\* `return token, input[i+1:]` on an unquoted space (i is 1-based here).
SpaceReturn(input, i, token) == TokRet(token, SliceFrom(input, i + 1))

\* FontReturn with the later escape cut after its backslash (input[i+1:]).
FontReturnCutsEscape(input, i, token) ==
    IF i = 1
    THEN IF Len(input) < 3 THEN TokPanic
         ELSE TokRet(Slice(input, 1, 3), SliceFrom(input, 4))
    ELSE TokRet(token, SliceFrom(input, i + 1))

\* The branch taken on a backslash followed by 'f' outside quoted mode.
FontReturn(input, i, token) ==
    IF i = 1
    THEN IF Len(input) < 3 THEN TokPanic      \* input[:3] out of range
         ELSE TokRet(Slice(input, 1, 3), SliceFrom(input, 4))
    ELSE TokRet(token, SliceFrom(input, i))

\* quoteToggle with the closing quote not ending quoted mode.
quoteNeverCloses(inQuote) == TRUE

\* `"` outside quoted mode starts quoted words, inside it ends them.
quoteToggle(inQuote) == IF ~inQuote THEN TRUE ELSE FALSE

RECURSIVE tokenLoop(_, _, _, _)
tokenLoop(input, i, inQuote, token) ==
    IF i > Len(input) THEN TokRet(token, <<>>)
    ELSE LET c == input[i] IN
         IF c = BS /\ i + 1 > Len(input) THEN TokPanic   \* input[i+1] out of range
         ELSE IF c = BS /\ input[i + 1] = "f"
              THEN IF inQuote
                   THEN tokenLoop(input, i + 1, inQuote, Append(token, BS))
                   ELSE FontReturn(input, i, token)
         ELSE IF c = BS THEN tokenLoop(input, i + 1, inQuote, token)
         ELSE IF c = DQ THEN tokenLoop(input, i + 1, quoteToggle(inQuote), token)
         ELSE IF c = SP /\ ~inQuote THEN SpaceReturn(input, i, token)
         ELSE tokenLoop(input, i + 1, inQuote, Append(token, c))

nextToken(input) ==
    IF Len(input) = 0 THEN TokRet(<<>>, <<>>)
    ELSE tokenLoop(input, 1, FALSE, <<>>)

(***************************************************************************)
(* The document model (src/doc.go:636-725).  A Span is a record whose      *)
(* field k tells the Go type it stands for.                                *)
(***************************************************************************)
textSpan(Typ, Text, NoSpace) ==
    [k |-> "textSpan", Typ |-> Typ, Text |-> Text, NoSpace |-> NoSpace]

flagSpan(Flag, Dash, NoSpace) ==
    [k |-> "flagSpan", Flag |-> Flag, Dash |-> Dash, NoSpace |-> NoSpace]

decoratedSpan(Typ, Contents) ==
    [k |-> "decoratedSpan", Typ |-> Typ, Contents |-> Contents]

\* manRef{Name, Section}: Section is a *int, nil when HasSection is FALSE.
manRef(Name, HasSection, Section) ==
    [k |-> "manRef", Name |-> Name, HasSection |-> HasSection, Section |-> Section]

\* list{}: the zero value a list-begin line starts from.
emptyList ==
    [k |-> "list", Typ |-> "bulletList", Items |-> <<>>, Compact |-> FALSE,
     Width |-> 0, Indent |-> 0]

listItem(Tag, Contents) == [Tag |-> Tag, Contents |-> Contents]

section(Name, Contents) == [Name |-> Name, Contents |-> Contents]

\* manPage{}: the zero value parseMdoc starts from.
emptyPage ==
    [Name |-> <<>>, Section |-> 0, Date |-> <<>>, Extra |-> <<>>,
     Sections |-> <<>>]

\* parser{}: the zero value, both fonts fontPlain.
newParser == [lastFont |-> "fontPlain", currentFont |-> "fontPlain"]

\* parseMdoc's locals before its loop (src/doc.go:973-978): no saved name,
\* an empty page, no current section (hasSection is currentSection != nil),
\* an empty list stack.
\* The value a panic carries: what raised it, the 1-based line number it
\* names (0 when it names none) and the text it quotes.
panicValue(kind, lineNo, text) == [kind |-> kind, lineNo |-> lineNo, text |-> text]

noPanic == panicValue("none", 0, <<>>)

newBuilder ==
    [page |-> emptyPage, hasSection |-> FALSE, currentSection |-> section(<<>>, <<>>),
     lists |-> <<>>, savedName |-> <<>>, p |-> newParser, panic |-> FALSE,
     err |-> noPanic]

(***************************************************************************)
(* The tokenizer on its own: every input over TokChars of at most          *)
(* MaxTokLen characters, tokenized once and then once more on the          *)
(* remainder, as the interpreter's loop does.                              *)
(***************************************************************************)
MaxTokLen == 4

TokChars == {"a", "f", "B", SP, DQ, BS}

RECURSIVE StringsUpTo(_, _)
StringsUpTo(chars, n) ==
    IF n = 0 THEN {<<>>}
    ELSE LET shorter == StringsUpTo(chars, n - 1)
         IN  shorter \cup {Append(s, c) : s \in shorter, c \in chars}

TokInputs == StringsUpTo(TokChars, MaxTokLen)

\* No document is being built or merged.
DocIdle ==
    /\ page = emptyPage
    /\ status = "idle"
    /\ merges = 0
    /\ origPage = emptyPage
    /\ firstMerge = emptyPage
    /\ builder = newBuilder
    /\ hist = <<>>

\* Nothing rendered yet.
notRendered ==
    [out |-> <<>>, rows |-> <<>>, panic |-> FALSE, done |-> FALSE, of |-> "none", width |-> 0]

\* The shell's model before its first message (NewModel): not ready, the
\* focus on the navigation, no window size, an empty viewport.
newModel ==
    [ready |-> FALSE, focus |-> "nav", showAll |-> FALSE, quit |-> FALSE,
     windowWidth |-> 0, windowHeight |-> 0,
     viewport |-> [Width |-> 0, Height |-> 0, content |-> <<>>],
     navHeight |-> 0, helpWidth |-> 0]

\* The locals of parseLine's loop at its entry for a line.
loopEntry(line, p) ==
    [line |-> line, res |-> <<>>, lastMacro |-> <<>>, repeatMacro |-> FALSE,
     p |-> p, done |-> FALSE, panic |-> FALSE]

\* Neither the renderer, the shell nor the stepwise interpreter is being
\* exercised.
ViewIdle ==
    /\ rendered = notRendered
    /\ ui = newModel
    /\ interp = [toks |-> <<>>, gap |-> 1, st |-> loopEntry(<<>>, newParser), last |-> "entry"]

\* The tokenizer is not being exercised.
TokIdle ==
    /\ tkInput = <<>>
    /\ tkPc = "idle"
    /\ tkFirst = TokRet(<<>>, <<>>)
    /\ tkSecond = TokRet(<<>>, <<>>)

TokInit ==
    /\ tkInput \in TokInputs
    /\ tkPc = "start"
    /\ tkFirst = TokRet(<<>>, <<>>)
    /\ tkSecond = TokRet(<<>>, <<>>)
    /\ DocIdle
    /\ ViewIdle

FirstCall ==
    /\ tkPc = "start"
    /\ tkFirst' = nextToken(tkInput)
    /\ tkPc' = "one"
    /\ UNCHANGED <<tkInput, tkSecond, docVars, viewVars>>

SecondCall ==
    /\ tkPc = "one"
    /\ ~tkFirst.panic
    /\ tkSecond' = nextToken(tkFirst.rest)
    /\ tkPc' = "two"
    /\ UNCHANGED <<tkInput, tkFirst, docVars, viewVars>>

TokNext == FirstCall \/ SecondCall

SpecTok == TokInit /\ [][TokNext]_vars

(***************************************************************************)
(* The macro interpreter, parser.parseLine (src/doc.go:776-967).           *)
(* The loop's state is a record: line, res, lastMacro, repeatMacro, the    *)
(* parser's font register p, and how the loop ended (done: left the loop,  *)
(* panic: a run-time panic, which aborts the parse).                       *)
(***************************************************************************)
mFl == <<"F", "l">>
mCm == <<"C", "m">>
mAr == <<"A", "r">>
mEv == <<"E", "v">>
mVa == <<"V", "a">>
mDv == <<"D", "v">>
mPa == <<"P", "a">>
mSy == <<"S", "y">>
mLi == <<"L", "i">>
mSt == <<"S", "t">>
mB == <<"B">>
mI == <<"I">>
mBR == <<"B", "R">>
mRB == <<"R", "B">>
mRI == <<"R", "I">>
mIR == <<"I", "R">>
mNs == <<"N", "s">>
mQl == <<"Q", "l">>
mPq == <<"P", "q">>
mSq == <<"S", "q">>
mDq == <<"D", "q">>
mOp == <<"O", "p">>

fileDots == <<"f", "i", "l", "e", SP, ".", ".", ".">>

ValueMacros == {mFl, mCm, mAr, mEv, mVa, mDv, mPa, mSy, mLi, mSt, mB, mI}

AlternatingMacros == {mBR, mRB, mRI, mIR}

EnclosureMacros == {mQl, mPq, mSq, mDq, mOp}

FontEscapes == {<<BS, "f", "B">>, <<BS, "f", "I">>, <<BS, "f", "R">>, <<BS, "f", "P">>}

CharEscapes == {<<BS, "-">>, <<BS, ",">>, <<BS, "/">>}

Separators == {<<",">>, <<"|">>}

\* The span an inline value macro emits for its payload.
valueSpan(token, payload) ==
    CASE token = mFl -> flagSpan(payload, TRUE, FALSE)
      [] token = mCm -> flagSpan(payload, FALSE, FALSE)
      [] token = mAr -> textSpan("tagArg", IF payload = <<>> THEN fileDots ELSE payload, FALSE)
      [] token = mEv -> textSpan("tagEnvVar", payload, FALSE)
      [] token \in {mVa, mDv} -> textSpan("tagVariable", payload, FALSE)
      [] token = mPa -> textSpan("tagPath", payload, FALSE)
      [] token = mSy -> textSpan("tagSymbolic", payload, FALSE)
      [] token = mLi -> textSpan("tagLiteral", payload, FALSE)
      [] token = mSt -> textSpan("tagStandard", payload, FALSE)
      [] token = mB -> textSpan("tagBold", payload, FALSE)
      [] token = mI -> textSpan("tagItalic", payload, FALSE)

\* case "Va", "Dv" records lastMacro = "Va"; every other case its own name.
valueMacroName(token) == IF token = mDv THEN mVa ELSE token

\* case "Fl" ... case "I": consume the next token as payload, emit one span.
valueMacro(st, token, rest) ==
    LET arg == nextToken(rest)
    IN  IF arg.panic THEN [st EXCEPT !.panic = TRUE]
        ELSE [st EXCEPT !.res = Append(@, valueSpan(token, arg.token)),
                        !.line = arg.rest,
                        !.lastMacro = valueMacroName(token)]

alternatingTag(token) ==
    CASE token = mBR -> "tagBold"
      [] token = mRB -> "tagPlain"
      [] token = mRI -> "tagPlain"
      [] token = mIR -> "tagItalic"

\* The macro name the rest of the line is prefixed with, and a space.
alternatingPrefix(token) ==
    CASE token = mBR -> mRB \o <<SP>>
      [] token = mRB -> mBR \o <<SP>>
      [] token = mRI -> mIR \o <<SP>>
      [] token = mIR -> mRI \o <<SP>>

\* alternatingMacro emitting the argument and leaving it on the line.
alternatingMacroKeepsArgument(st, token, rest) ==
    LET arg == nextToken(rest)
    IN  IF arg.panic THEN [st EXCEPT !.panic = TRUE]
        ELSE IF arg.token # <<>>
        THEN [st EXCEPT !.res = Append(@, textSpan(alternatingTag(token), arg.token, FALSE)),
                        !.line = alternatingPrefix(token) \o rest,
                        !.lastMacro = token]
        ELSE [st EXCEPT !.line = arg.rest, !.lastMacro = token]

\* case "BR", "RB", "RI", "IR".
alternatingMacro(st, token, rest) ==
    LET arg == nextToken(rest)
    IN  IF arg.panic THEN [st EXCEPT !.panic = TRUE]
        ELSE IF arg.token # <<>>
        THEN [st EXCEPT !.res = Append(@, textSpan(alternatingTag(token), arg.token, FALSE)),
                        !.line = alternatingPrefix(token) \o arg.rest,
                        !.lastMacro = token]
        ELSE [st EXCEPT !.line = arg.rest, !.lastMacro = token]

\* noSpaceMacro with an Ns that has no span before it skipped.
noSpaceMacroLenient(st, rest) ==
    IF Len(st.res) = 0 THEN [st EXCEPT !.line = rest]
    ELSE IF st.res[Len(st.res)].k \in {"textSpan", "flagSpan"}
    THEN [st EXCEPT !.res[Len(st.res)].NoSpace = TRUE, !.line = rest]
    ELSE [st EXCEPT !.panic = TRUE]

\* case "Ns": res[len(res)-1] panics on an empty res; a last span that is
\* neither a textSpan nor a flagSpan reaches the explicit panic.
noSpaceMacro(st, rest) ==
    IF Len(st.res) = 0 THEN [st EXCEPT !.panic = TRUE]
    ELSE IF st.res[Len(st.res)].k \in {"textSpan", "flagSpan"}
    THEN [st EXCEPT !.res[Len(st.res)].NoSpace = TRUE, !.line = rest]
    ELSE [st EXCEPT !.panic = TRUE]

decorationOf(token) ==
    CASE token = mQl -> "decorationQuotedLiteral"
      [] token = mPq -> "decorationParens"
      [] token = mSq -> "decorationSingleQuote"
      [] token = mDq -> "decorationDoubleQuote"
      [] token = mOp -> "decorationOptional"

\* fontEscape with the previous-font slot never written.
fontEscapeNoSave(st, token, rest) ==
    LET newFont == CASE token[3] = "B" -> "fontBold"
                     [] token[3] = "I" -> "fontItalic"
                     [] token[3] = "R" -> "fontPlain"
                     [] token[3] = "P" -> st.p.lastFont
    IN  [st EXCEPT !.p = [lastFont |-> st.p.lastFont, currentFont |-> newFont],
                   !.line = rest]

\* case "\\fB", "\\fI", "\\fR", "\\fP": the font register.
fontEscape(st, token, rest) ==
    LET newFont == CASE token[3] = "B" -> "fontBold"
                     [] token[3] = "I" -> "fontItalic"
                     [] token[3] = "R" -> "fontPlain"
                     [] token[3] = "P" -> st.p.lastFont
        newLast == IF token[3] = "P" THEN st.p.lastFont ELSE st.p.currentFont
    IN  [st EXCEPT !.p = [lastFont |-> newLast, currentFont |-> newFont],
                   !.line = rest]

\* case "\\-", "\\,", "\\/": token[1:2] as a plain NoSpace span.
charEscape(st, token, rest) ==
    [st EXCEPT !.res = Append(@, textSpan("tagPlain", Slice(token, 2, 2), TRUE)),
               !.line = rest]

\* separatorToken leaving the repeat flag as it was.
separatorTokenUnarmed(st, token, rest) ==
    [st EXCEPT !.res = Append(@, textSpan("tagPlain", token, FALSE)),
               !.line = rest]

\* case ",", "|".
separatorToken(st, token, rest) ==
    [st EXCEPT !.res = Append(@, textSpan("tagPlain", token, FALSE)),
               !.line = rest,
               !.repeatMacro = TRUE]

fontTag(font) ==
    CASE font = "fontPlain" -> "tagPlain"
      [] font = "fontBold" -> "tagBold"
      [] font = "fontItalic" -> "tagItalic"

\* default: re-inject the last macro when armed, else emit the token.
otherToken(st, token, rest) ==
    IF st.repeatMacro
    THEN [st EXCEPT !.line = st.lastMacro \o <<SP>> \o st.line,
                    !.repeatMacro = FALSE]
    ELSE [st EXCEPT !.res = Append(@, textSpan(fontTag(st.p.currentFont), token, FALSE)),
                    !.line = rest]

RECURSIVE parseLine(_, _), parseLoop(_)

\* enclosureMacro enclosing the next token only and reading on.
enclosureMacroOneToken(st, token, rest) ==
    LET arg == nextToken(rest)
        inner == parseLine(st.p, arg.token)
    IN  IF arg.panic \/ inner.panic THEN [st EXCEPT !.panic = TRUE]
        ELSE [st EXCEPT !.res = Append(@, decoratedSpan(decorationOf(token), inner.res)),
                        !.p = inner.p,
                        !.line = arg.rest]

\* case "Ql", "Pq", "Sq", "Dq", "Op": the rest of the line becomes the
\* children; break tokenizer.
enclosureMacro(st, token, rest) ==
    LET inner == parseLine(st.p, rest)
    IN  IF inner.panic THEN [st EXCEPT !.panic = TRUE]
        ELSE [st EXCEPT !.res = Append(@, decoratedSpan(decorationOf(token), inner.res)),
                        !.p = inner.p,
                        !.done = TRUE]

\* One iteration of the tokenizer loop.
parseStep(st) ==
    LET t == nextToken(st.line)
        token == t.token
        rest == t.rest
    IN  IF t.panic THEN [st EXCEPT !.panic = TRUE]
        ELSE IF token = <<>> /\ Len(rest) > 0 THEN [st EXCEPT !.line = rest]   \* eat spaces
        ELSE IF token \in ValueMacros THEN valueMacro(st, token, rest)
        ELSE IF token \in AlternatingMacros THEN alternatingMacro(st, token, rest)
        ELSE IF token = mNs THEN noSpaceMacro(st, rest)
        ELSE IF token \in EnclosureMacros THEN enclosureMacro(st, token, rest)
        ELSE IF token \in FontEscapes THEN fontEscape(st, token, rest)
        ELSE IF token \in CharEscapes THEN charEscape(st, token, rest)
        ELSE IF token \in Separators THEN separatorToken(st, token, rest)
        ELSE IF token = <<>> THEN [st EXCEPT !.done = TRUE]
        ELSE otherToken(st, token, rest)

parseLoop(st) ==
    LET next == parseStep(st)
    IN  IF next.panic \/ next.done THEN next ELSE parseLoop(next)

\* p.parseLine(line): the spans, the parser's fonts afterwards, and whether
\* the call panicked.
parseLine(p, line) ==
    IF line = <<>> THEN [res |-> <<>>, p |-> p, panic |-> FALSE]
    ELSE LET end == parseLoop([line |-> line, res |-> <<>>, lastMacro |-> <<>>,
                               repeatMacro |-> FALSE, p |-> p,
                               done |-> FALSE, panic |-> FALSE])
         IN  [res |-> end.res, p |-> end.p, panic |-> end.panic]

(***************************************************************************)
(* The document builder, parser.parseMdoc (src/doc.go:969-1192).           *)
(***************************************************************************)
NL == "\n"

Letters ==
    {"a", "b", "c", "d", "e", "f", "g", "h", "i", "j", "k", "l", "m", "n", "o",
     "p", "q", "r", "s", "t", "u", "v", "w", "x", "y", "z", "A", "B", "C", "D",
     "E", "F", "G", "H", "I", "J", "K", "L", "M", "N", "O", "P", "Q", "R", "S",
     "T", "U", "V", "W", "X", "Y", "Z", "_"}

Digits == {"0", "1", "2", "3", "4", "5", "6", "7", "8", "9"}

Whitespace == {SP, NL, "\t", "\r", "\f"}

\* strings.HasPrefix
HasPrefix(s, prefix) ==
    Len(s) >= Len(prefix) /\ Slice(s, 1, Len(prefix)) = prefix

\* strings.Trim(s, "\""): leading and trailing quotes removed.
RECURSIVE TrimQuotes(_)
TrimQuotes(s) ==
    IF Len(s) > 0 /\ Head(s) = DQ THEN TrimQuotes(Tail(s))
    ELSE IF Len(s) > 0 /\ s[Len(s)] = DQ THEN TrimQuotes(Slice(s, 1, Len(s) - 1))
    ELSE s

\* The end of the longest run of characters of class, starting at from
\* (from - 1 when the run is empty).
RECURSIVE RunEnd(_, _, _)
RunEnd(s, from, class) ==
    IF from <= Len(s) /\ s[from] \in class THEN RunEnd(s, from + 1, class)
    ELSE from - 1

NonSpace(s) == {s[i] : i \in 1..Len(s)} \ Whitespace

\* mdocTitle: `\.Dt ([A-Za-z_]+) (\d+)` matches somewhere in line.  The
\* name group can give back letters, but the space after it cannot be a
\* letter, so the group is the whole run.
mdocTitleAt(line, i) ==
    /\ HasPrefix(SliceFrom(line, i), <<".", "D", "t", SP>>)
    /\ LET e == RunEnd(line, i + 4, Letters)
       IN  /\ e >= i + 4
           /\ e + 2 <= Len(line)
           /\ line[e + 1] = SP
           /\ line[e + 2] \in Digits

mdocTitleMatch(line) == \E i \in 1..Len(line) : mdocTitleAt(line, i)

\* xr: `\.Xr (\S+)(?: (\d+))?` and nameFull: `\.Nm (\S+)(?: (\S+))?` match
\* when the macro, a space and one non-space character occur in line.
macroArgAt(line, i, macro) ==
    /\ HasPrefix(SliceFrom(line, i), macro \o <<SP>>)
    /\ i + Len(macro) + 1 <= Len(line)
    /\ line[i + Len(macro) + 1] \notin Whitespace

xrMatch(line) == \E i \in 1..Len(line) : macroArgAt(line, i, <<".", "X", "r">>)

nameFullMatch(line) == \E i \in 1..Len(line) : macroArgAt(line, i, <<".", "N", "m">>)

\* The switch of parseMdoc's loop: the first case, in source order, whose
\* condition holds for line.
lineCase(line) ==
    CASE HasPrefix(line, <<".", BS, DQ>>) \/ HasPrefix(line, <<"'", BS, DQ>>) -> "comment"
      [] OTHER ->
    CASE HasPrefix(line, <<".", "D", "d">>) -> "Dd"
      [] OTHER ->
    CASE mdocTitleMatch(line) -> "Dt"
      [] OTHER ->
    CASE HasPrefix(line, <<".", "T", "H">>) -> "TH"
      [] OTHER ->
    CASE HasPrefix(line, <<".", "S", "h">>) \/ HasPrefix(line, <<".", "S", "H">>) -> "Sh"
      [] OTHER ->
    CASE nameFullMatch(line) -> "NmFull"
      [] OTHER ->
    CASE line = <<".", "N", "m">> -> "Nm"
      [] OTHER ->
    CASE HasPrefix(line, <<".", "N", "d">>) -> "Nd"
      [] OTHER ->
    CASE HasPrefix(line, <<".", "I", "n">>) -> "In"
      [] OTHER ->
    CASE xrMatch(line) -> "Xr"
      [] OTHER ->
    CASE HasPrefix(line, <<".", "S", "s">>) \/ HasPrefix(line, <<".", "S", "S">>) -> "Ss"
      [] OTHER ->
    CASE HasPrefix(line, <<".", "D", "l">>) -> "Dl"
      [] OTHER ->
    CASE HasPrefix(line, <<".", "I", "P">>) -> "IP"
      [] OTHER ->
    CASE HasPrefix(line, <<".", "T", "P">>) -> "TP"
      [] OTHER ->
    CASE HasPrefix(line, <<".", "f", "t">>) -> "ft"
      [] OTHER ->
    CASE HasPrefix(line, <<".", "B", "l">>) -> "Bl"
      [] OTHER ->
    CASE HasPrefix(line, <<".", "I", "t">>) -> "It"
      [] OTHER ->
    CASE HasPrefix(line, <<".", "E", "l">>) -> "El"
      [] OTHER ->
    CASE HasPrefix(line, <<".", "O", "s">>) -> "Os"
      [] OTHER ->
    CASE line = <<".", "P", "p">> \/ line = <<".", "P", "P">> -> "Pp"
      [] OTHER ->
    CASE line = <<".", "b", "r">> -> "br"
      [] OTHER ->
    CASE line = <<".", "n", "a">> -> "na"
      [] OTHER ->
    CASE line = <<".", "n", "h">> -> "nh"
      [] OTHER ->
    CASE HasPrefix(line, <<".", "n", "r">>) -> "nr"
      [] OTHER ->
    CASE line = <<".">> \/ line = <<>> -> "blank"
      [] OTHER ->
    CASE HasPrefix(line, <<".">>) -> "macro"
      [] OTHER -> "text"

\* strings.Join(words, " ")
RECURSIVE joinWords(_)
joinWords(ws) ==
    IF ws = <<>> THEN <<>>
    ELSE IF Len(ws) = 1 THEN ws[1]
    ELSE ws[1] \o <<SP>> \o joinWords(Tail(ws))

\* shlex.Split as far as list-begin lines need it: words are separated by
\* spaces, double quotes group a word and are removed, and an unclosed
\* quote is an error.
RECURSIVE shlexScan(_, _, _, _, _, _)
shlexScan(s, i, args, word, inWord, inQuote) ==
    IF i > Len(s)
    THEN [err |-> inQuote, args |-> IF inWord THEN Append(args, word) ELSE args]
    ELSE IF s[i] = DQ THEN shlexScan(s, i + 1, args, word, TRUE, ~inQuote)
    ELSE IF s[i] = SP /\ ~inQuote
    THEN shlexScan(s, i + 1, IF inWord THEN Append(args, word) ELSE args, <<>>, FALSE, FALSE)
    ELSE shlexScan(s, i + 1, args, Append(word, s[i]), TRUE, inQuote)

shlexSplit(s) == shlexScan(s, 1, <<>>, <<>>, FALSE, FALSE)

\* slices.Contains
Contains(args, x) == \E i \in 1..Len(args) : args[i] = x

\* slices.Index, 1-based; 0 stands for Go's -1.
Index(args, x) ==
    IF Contains(args, x)
    THEN CHOOSE i \in 1..Len(args) : args[i] = x /\ \A j \in 1..(i - 1) : args[j] # x
    ELSE 0

oBullet == <<"-", "b", "u", "l", "l", "e", "t">>
oEnum == <<"-", "e", "n", "u", "m">>
oTag == <<"-", "t", "a", "g">>
oDiag == <<"-", "d", "i", "a", "g">>
oHang == <<"-", "h", "a", "n", "g">>
oOhang == <<"-", "o", "h", "a", "n", "g">>
oInset == <<"-", "i", "n", "s", "e", "t">>
oWidth == <<"-", "w", "i", "d", "t", "h">>
oOffset == <<"-", "o", "f", "f", "s", "e", "t">>
oCompact == <<"-", "c", "o", "m", "p", "a", "c", "t">>
oIndent == <<"i", "n", "d", "e", "n", "t">>

\* The indent of `-offset indent`.
OffsetIndent == 6

\* panic(v)
raiseWith(b, v) == [b EXCEPT !.panic = TRUE, !.err = v]

\* A run-time panic, or an explicit one whose value names no line.
raise(b) == raiseWith(b, panicValue("panic", 0, <<>>))

DigitChars == <<"0", "1", "2", "3", "4", "5", "6", "7", "8", "9">>

DigitValue(c) == (CHOOSE i \in 1..Len(DigitChars) : DigitChars[i] = c) - 1

RECURSIVE digitsValue(_, _)
digitsValue(s, acc) ==
    IF s = <<>> THEN acc ELSE digitsValue(Tail(s), acc * 10 + DigitValue(Head(s)))

\* strconv.Atoi: an optional sign and decimal digits, anything else an
\* error.  (The strings read here are too short to overflow an int.)
Atoi(s) ==
    LET signed == Len(s) > 0 /\ s[1] \in {"+", "-"}
        digits == IF signed THEN Tail(s) ELSE s
        ok == Len(digits) > 0 /\ \A i \in 1..Len(digits) : digits[i] \in Digits
    IN  [ok |-> ok,
         val |-> IF ~ok THEN 0
                 ELSE IF signed /\ s[1] = "-" THEN 0 - digitsValue(digits, 0)
                 ELSE digitsValue(digits, 0),
         text |-> s]

\* The error strconv.Atoi returns: it quotes the string, and names no line.
atoiError(s) == panicValue("strconv.Atoi", 0, s)

\* parseError (src/doc.go:740-742): "Error parsing <info> on line <line>".
parseError(line, info) == panicValue("parseError", line, info)

\* strings.Repeat(unit, n) for n >= 0.
RECURSIVE Repeat(_, _)
Repeat(unit, n) == IF n <= 0 THEN <<>> ELSE unit \o Repeat(unit, n - 1)

\* case mdocTitle.MatchString(line) (src/doc.go:1000-1007): the leftmost
\* match gives the name (the run of letters) and the section (the run of
\* digits).
mdocTitleLine(b, line) ==
    LET i == CHOOSE k \in 1..Len(line) :
                 mdocTitleAt(line, k) /\ \A j \in 1..(k - 1) : ~mdocTitleAt(line, j)
        e == RunEnd(line, i + 4, Letters)
        d == RunEnd(line, e + 2, Digits)
        sect == Atoi(Slice(line, e + 2, d))
    IN  IF ~sect.ok THEN raiseWith([b EXCEPT !.page.Name = Slice(line, i + 4, e)],
                                   atoiError(sect.text))
        ELSE [b EXCEPT !.page.Name = Slice(line, i + 4, e), !.page.Section = sect.val]

\* case .TH (src/doc.go:1009-1022): line[4:] split by shlex; parts[0],
\* parts[1] and parts[2] panic when the line has too few words.
manTitleLine(b, line) ==
    IF Len(line) < 4 THEN raise(b)
    ELSE LET split == shlexSplit(SliceFrom(line, 5))
             parts == split.args
             sect == Atoi(parts[2])
         IN  IF split.err THEN raiseWith(b, panicValue("shlex", 0, <<>>))
             ELSE IF Len(parts) < 1 THEN raise(b)
             ELSE IF Len(parts) < 2 THEN raise([b EXCEPT !.page.Name = parts[1]])
             ELSE IF ~sect.ok
             THEN raiseWith([b EXCEPT !.page.Name = parts[1]], atoiError(sect.text))
             ELSE IF Len(parts) < 3
             THEN raise([b EXCEPT !.page.Name = parts[1], !.page.Section = sect.val])
             ELSE [b EXCEPT !.page.Name = parts[1],
                            !.page.Section = sect.val,
                            !.page.Date = parts[3],
                            !.page.Extra = joinWords(SliceFrom(parts, 4))]

\* The runes U+2022 and U+2014, each one character of a string.
bulletRune == "(bullet)"

dashRune == "(em dash)"

bulletEscape == <<BS, "(", "b", "u">>

dashEscape == <<BS, "(", "e", "m">>


\* addSpans (src/doc.go:980-989): to the last item of the innermost open
\* list (Items[len-1] panics when that list has no item), else to the
\* current section, else the explicit panic.
addSpans(b, spans) ==
    IF Len(b.lists) > 0
    THEN IF Len(b.lists[Len(b.lists)].Items) = 0 THEN raise(b)
         ELSE [b EXCEPT !.lists[Len(b.lists)].Items[Len(b.lists[Len(b.lists)].Items)].Contents
                            = @ \o spans]
    ELSE IF b.hasSection
    THEN [b EXCEPT !.currentSection.Contents = @ \o spans]
    ELSE raise(b)

\* case .IP (src/doc.go:1078-1102); lineNo is the loop's 0-based index.
\* strings.Repeat panics on a negative count.
indentedParagraph(b, line, lineNo) ==
    LET has == Len(line) > 3
        first == IF has THEN nextToken(SliceFrom(line, 5)) ELSE TokRet(<<>>, <<>>)
        arg1 == first.token
        tag == IF arg1 = bulletEscape THEN <<bulletRune>>
               ELSE IF arg1 = dashEscape THEN <<dashRune>>
               ELSE arg1
        second == IF first.panic THEN first ELSE nextToken(first.rest)
        arg2 == second.token
        level == Atoi(arg2)
        indent == IF arg2 # <<>> THEN level.val ELSE 0
    IN  IF first.panic \/ second.panic THEN raise(b)
        ELSE IF arg2 # <<>> /\ ~level.ok THEN raiseWith(b, parseError(lineNo + 1, arg2))
        ELSE IF indent < 0 THEN raise(b)
        ELSE addSpans(b, <<textSpan("tagPlain",
                                    <<NL>> \o Repeat(<<SP, SP>>, indent) \o tag, FALSE)>>)

\* The index after the longest run of non-space characters from from on.
nonSpaceEnd(line, from) ==
    CHOOSE k \in (from - 1)..Len(line) :
        /\ \A j \in from..k : line[j] \notin Whitespace
        /\ k = Len(line) \/ line[k + 1] \in Whitespace

digitEnd(line, from) ==
    CHOOSE k \in (from - 1)..Len(line) :
        /\ \A j \in from..k : line[j] \in Digits
        /\ k = Len(line) \/ line[k + 1] \notin Digits

\* FindStringSubmatch for xr and nameFull (src/doc.go:970-972): the leftmost
\* match; group 1 is the run of non-space characters after the macro and a
\* space, group 2 the run (of digits for xr) after one more space, when
\* there is one.
macroSubmatch(line, macro, digits) ==
    LET i == CHOOSE n \in 1..Len(line) :
                 /\ macroArgAt(line, n, macro)
                 /\ \A j \in 1..(n - 1) : ~macroArgAt(line, j, macro)
        from == i + Len(macro) + 1
        to == nonSpaceEnd(line, from)
        has == /\ to + 2 <= Len(line)
               /\ line[to + 1] = SP
               /\ IF digits THEN line[to + 2] \in Digits
                             ELSE line[to + 2] \notin Whitespace
        end == IF digits THEN digitEnd(line, to + 2) ELSE nonSpaceEnd(line, to + 2)
    IN  [first |-> Slice(line, from, to),
         has |-> has,
         second |-> IF has THEN Slice(line, to + 2, end) ELSE <<>>]

\* case nameFull.MatchString(line) (src/doc.go:1034-1043).
nameFullLine(b, line) ==
    LET parts == macroSubmatch(line, <<".", "N", "m">>, FALSE)
        saved == IF b.savedName = <<>> THEN [b EXCEPT !.savedName = parts.first] ELSE b
        named == addSpans(saved, <<textSpan("tagNameRef", parts.first, FALSE)>>)
    IN  IF named.panic \/ ~parts.has THEN named
        ELSE addSpans(named, <<textSpan("tagPlain", parts.second, FALSE)>>)

synopsisName == <<"S", "Y", "N", "O", "P", "S", "I", "S">>

\* case line == ".Nm" (src/doc.go:1045-1049); currentSection.Name is read
\* through a nil pointer when no header came before.
nameBareLine(b) ==
    IF ~b.hasSection THEN raise(b)
    ELSE LET broken == IF b.currentSection.Name = synopsisName
                       THEN addSpans(b, <<textSpan("tagPlain", <<NL>>, TRUE)>>)
                       ELSE b
         IN  IF broken.panic THEN broken
             ELSE addSpans(broken, <<textSpan("tagNameRef", b.savedName, FALSE)>>)

\* case xr.MatchString(line) (src/doc.go:1057-1069): parts always holds six
\* indexes, so the section is sliced out even when group 2 did not match,
\* with both of its indexes -1.
crossReference(b, line) ==
    LET parts == macroSubmatch(line, <<".", "X", "r">>, TRUE)
    IN  IF ~parts.has THEN raise(b)
        ELSE addSpans(b, <<manRef(parts.first, TRUE, Atoi(parts.second).val)>>)

\* The section in progress, appended to page.Sections when there is one.
flushSection(b) ==
    IF b.hasSection
    THEN [b EXCEPT !.page.Sections = Append(@, b.currentSection)]
    ELSE b

\* sectionHeader with the section in progress dropped instead of flushed.
sectionHeaderNoFlush(b, line) ==
    IF Len(line) < 4 THEN raise(b)
    ELSE [b EXCEPT !.hasSection = TRUE,
                   !.currentSection = section(TrimQuotes(SliceFrom(line, 5)), <<>>)]

\* case .Sh / .SH (src/doc.go:1024-1032); line[4:] panics on a bare ".Sh".
sectionHeader(b, line) ==
    IF Len(line) < 4 THEN raise(flushSection(b))
    ELSE [flushSection(b) EXCEPT
             !.hasSection = TRUE,
             !.currentSection = section(TrimQuotes(SliceFrom(line, 5)), <<>>)]

\* The list kind the options select, in the order of the switch.
listTypeOf(args) ==
    CASE Contains(args, oBullet) -> "bulletList"
      [] OTHER ->
    CASE Contains(args, oEnum) -> "enumList"
      [] OTHER ->
    CASE Contains(args, oTag) -> "tagList"
      [] OTHER ->
    CASE Contains(args, oDiag) -> "diagList"
      [] OTHER ->
    CASE Contains(args, oHang) -> "hangList"
      [] OTHER ->
    CASE Contains(args, oOhang) -> "ohangList"
      [] OTHER ->
    CASE Contains(args, oInset) -> "insetList"
      [] OTHER -> "itemList"

\* case .Bl (src/doc.go:1110-1148).  Panics: line[4:] on a bare ".Bl", a
\* shlex error, a tag list without -width, and args[i+1] past the end
\* after -width or -offset.
beginList(b, line) ==
    IF Len(line) < 4 THEN raise(b)
    ELSE LET split == shlexSplit(SliceFrom(line, 5))
             args == split.args
             typ == listTypeOf(args)
             widthIdx == Index(args, oWidth)
             offsetIdx == Index(args, oOffset)
         IN  IF split.err THEN raise(b)
             ELSE IF typ = "tagList" /\ (widthIdx = 0 \/ widthIdx + 1 > Len(args))
             THEN raise(b)
             ELSE IF offsetIdx # 0 /\ offsetIdx + 1 > Len(args) THEN raise(b)
             ELSE [b EXCEPT !.lists = Append(@,
                     [emptyList EXCEPT
                        !.Typ = typ,
                        !.Width = IF typ = "tagList" THEN Len(args[widthIdx + 1]) ELSE 0,
                        !.Indent = IF offsetIdx # 0 /\ args[offsetIdx + 1] = oIndent
                                   THEN OffsetIndent ELSE 0,
                        !.Compact = Contains(args, oCompact)])]

\* case .It (src/doc.go:1150-1155); lists.Peek() panics on an empty stack.
listItemLine(b, line) ==
    LET tag == IF Len(line) > 4 THEN parseLine(b.p, SliceFrom(line, 5))
               ELSE [res |-> <<>>, p |-> b.p, panic |-> FALSE]
    IN  IF tag.panic \/ Len(b.lists) = 0 THEN raise(b)
        ELSE [b EXCEPT !.p = tag.p,
                       !.lists[Len(b.lists)].Items = Append(@, listItem(tag.res, <<>>))]

\* endList taking a list end with no list open for a line of no effect.
endListIgnoresEmpty(b, line) ==
    IF Len(b.lists) = 0 THEN b
    ELSE addSpans([b EXCEPT !.lists = Slice(@, 1, Len(@) - 1)],
                  <<b.lists[Len(b.lists)]>>)

\* case .El (src/doc.go:1157-1159); lists.Pop() panics on an empty stack.
endList(b, line) ==
    IF Len(b.lists) = 0 THEN raise(b)
    ELSE addSpans([b EXCEPT !.lists = Slice(@, 1, Len(@) - 1)],
                  <<b.lists[Len(b.lists)]>>)

\* case .Pp / .PP (src/doc.go:1164-1165).
paragraphBreak(b, line) == addSpans(b, <<textSpan("tagPlain", <<NL, NL>>, FALSE)>>)

\* The spans of a line handed to the interpreter, added where addSpans
\* puts them.
addParsed(b, parsed) ==
    IF parsed.panic THEN raise(b)
    ELSE addSpans([b EXCEPT !.p = parsed.p], parsed.res)

\* case strings.HasPrefix(line, ".") (src/doc.go:1182-1183).
macroLine(b, line) == addParsed(b, parseLine(b.p, SliceFrom(line, 2)))

\* default (src/doc.go:1185-1186).
textLine(b, line) == addParsed(b, parseLine(b.p, line))

\* endOfInput putting the outermost list still open into the section.
endOfInputKeepsOpenList(b) ==
    IF ~b.hasSection THEN raise(b)
    ELSE IF Len(b.lists) > 0
    THEN flushSection([b EXCEPT !.currentSection.Contents = Append(@, b.lists[1])])
    ELSE flushSection(b)

\* After the loop (src/doc.go:1190-1191): *currentSection is a nil
\* dereference when no section header was read.
endOfInput(b) ==
    IF ~b.hasSection THEN raise(b) ELSE flushSection(b)

(***************************************************************************)
(* The span merge pass, manPage.mergeSpans.  Its callers are               *)
(* src/unnamed/part_005:128 and src/doc_test.go:59,77; its body is not     *)
(* among the sources, so it is written from the specification, section     *)
(* 4.4: one forward scan per section / list-item span sequence with an     *)
(* accumulator text span.                                                  *)
(***************************************************************************)
\* compatible with the NoSpace flags not compared.
compatibleIgnoresNoSpace(acc, s) == s.k = "textSpan" /\ acc.Typ = s.Typ

\* The next text span folds into the accumulator: same tag, same NoSpace.
compatible(acc, s) ==
    s.k = "textSpan" /\ acc.Typ = s.Typ /\ acc.NoSpace = s.NoSpace

\* Concatenate the texts, joined by one separator unless NoSpace.
fold(acc, s) ==
    [acc EXCEPT !.Text = IF acc.NoSpace THEN acc.Text \o s.Text
                         ELSE acc.Text \o <<SP>> \o s.Text]

\* Flush the accumulator, if there is one.
flush(out, acc, hasAcc) == IF hasAcc THEN Append(out, acc) ELSE out

noAcc == textSpan("tagPlain", <<>>, FALSE)

RECURSIVE mergeScan(_, _, _, _, _), mergeScanPairs(_, _, _, _, _)

\* A list passes through with each item's body merged; other spans as is.
mergeInner(s) ==
    IF s.k = "list"
    THEN [s EXCEPT !.Items =
            [j \in 1..Len(s.Items) |->
                [s.Items[j] EXCEPT
                    !.Contents = mergeScan(s.Items[j].Contents, 1, <<>>, noAcc, FALSE)]]]
    ELSE s

\* mergeScan with the accumulator flushed as soon as it has folded one span.
mergeScanPairs(spans, i, out, acc, hasAcc) ==
    IF i > Len(spans) THEN flush(out, acc, hasAcc)
    ELSE LET s == spans[i] IN
         IF s.k = "textSpan"
         THEN IF hasAcc /\ compatible(acc, s)
              THEN mergeScanPairs(spans, i + 1, Append(out, fold(acc, s)), noAcc, FALSE)
              ELSE mergeScanPairs(spans, i + 1, flush(out, acc, hasAcc), s, TRUE)
         ELSE mergeScanPairs(spans, i + 1,
                             Append(flush(out, acc, hasAcc), mergeInner(s)), noAcc, FALSE)

mergeScan(spans, i, out, acc, hasAcc) ==
    IF i > Len(spans) THEN flush(out, acc, hasAcc)
    ELSE LET s == spans[i] IN
         IF s.k = "textSpan"
         THEN IF hasAcc /\ compatible(acc, s)
              THEN mergeScan(spans, i + 1, out, fold(acc, s), TRUE)
              ELSE mergeScan(spans, i + 1, flush(out, acc, hasAcc), s, TRUE)
         ELSE mergeScan(spans, i + 1,
                        Append(flush(out, acc, hasAcc), mergeInner(s)), noAcc, FALSE)

mergeSequence(spans) == mergeScan(spans, 1, <<>>, noAcc, FALSE)

mergeSpans(pg) ==
    [pg EXCEPT !.Sections =
        [j \in 1..Len(pg.Sections) |->
            [pg.Sections[j] EXCEPT !.Contents = mergeSequence(pg.Sections[j].Contents)]]]

(***************************************************************************)
(* What the tokenizer claims are stated with: a description of the input   *)
(* by positions, independent of the scan's own state.                      *)
(***************************************************************************)
HasChar(s, c) == \E k \in 1..Len(s) : s[k] = c

\* Position k lies in quoted mode: an odd number of quotes precede it.
Quoted(s, k) == Cardinality({j \in 1..(k - 1) : s[j] = DQ}) % 2 = 1

\* A font escape starts at position k: a backslash followed by 'f'.
IsEsc(s, k) == k < Len(s) /\ s[k] = BS /\ s[k + 1] = "f"

\* An unquoted space or an unquoted font escape: where a token can end.
IsStop(s, k) == ~Quoted(s, k) /\ (s[k] = SP \/ IsEsc(s, k))

FirstStop(s) ==
    IF \E k \in 1..Len(s) : IsStop(s, k)
    THEN CHOOSE k \in 1..Len(s) :
             IsStop(s, k) /\ \A j \in 1..(k - 1) : ~IsStop(s, j)
    ELSE 0

\* The characters of s[lo..hi] without the quotes and without the
\* backslashes that do not start a font escape.
RECURSIVE KeptText(_, _, _)
KeptText(s, lo, hi) ==
    IF lo > hi THEN <<>>
    ELSE (IF s[lo] # DQ /\ (s[lo] # BS \/ IsEsc(s, lo)) THEN <<s[lo]>> ELSE <<>>)
         \o KeptText(s, lo + 1, hi)

RECURSIVE SkipSpaces(_)
SkipSpaces(s) == IF Len(s) > 0 /\ Head(s) = SP THEN SkipSpaces(Tail(s)) ELSE s

\* Number of input characters the first call consumed.
Consumed == Len(tkInput) - Len(tkFirst.rest)

\* C1: for an input without quotes or backslashes that contains a space,
\* the token is the text before the first space and the remainder is the
\* text after it with all leading spaces skipped, so the remainder never
\* begins with a space.
C1_RemainderSkipsSpaces ==
    (tkPc # "start" /\ ~HasChar(tkInput, DQ) /\ ~HasChar(tkInput, BS)
        /\ HasChar(tkInput, SP))
    => LET k == FirstStop(tkInput)
       IN  /\ ~tkFirst.panic
           /\ tkFirst.token = Slice(tkInput, 1, k - 1)
           /\ tkFirst.rest = SkipSpaces(SliceFrom(tkInput, k + 1))
           /\ (tkFirst.rest = <<>> \/ Head(tkFirst.rest) # SP)

\* C2: outside quoted mode a font escape at the very start of the input is
\* the 3-character token with the rest as remainder; a font escape later in
\* the input ends the token just before it, the remainder begins with the
\* escape and the next call returns exactly the escape; no token taken
\* outside quoted mode holds part of a font escape unless it is the escape.
C2_FontEscapeOwnToken ==
    LET s == tkInput
        k == FirstStop(s)
    IN  /\ (tkPc # "start" /\ Len(s) >= 3 /\ IsEsc(s, 1))
           => tkFirst = TokRet(Slice(s, 1, 3), SliceFrom(s, 4))
        /\ (tkPc # "start" /\ k > 1 /\ IsEsc(s, k))
           => tkFirst = TokRet(KeptText(s, 1, k - 1), SliceFrom(s, k))
        /\ (tkPc = "two" /\ k > 1 /\ IsEsc(s, k) /\ Len(s) >= k + 2)
           => tkSecond = TokRet(Slice(s, k, k + 2), SliceFrom(s, k + 3))
        /\ (tkPc # "start" /\ ~tkFirst.panic)
           => /\ \A j \in 1..Consumed :
                    (IsEsc(s, j) /\ ~Quoted(s, j))
                    => (Consumed = 3 /\ IsEsc(s, 1))
              /\ ~HasChar(s, DQ)
                 => \/ ~HasChar(tkFirst.token, BS)
                    \/ (IsEsc(s, 1) /\ tkFirst.token = Slice(s, 1, 3))

\* C2's case: an escape after one ordinary character, returned by the
\* second call.
C2_Witness ==
    /\ tkPc = "two"
    /\ FirstStop(tkInput) = 2
    /\ IsEsc(tkInput, 2)
    /\ Len(tkInput) = 4
    /\ tkSecond.token = SliceFrom(tkInput, 2)

\* C3: every double quote read toggles quoted mode and is left out of the
\* token; a space in quoted mode is part of the token and does not end it,
\* a space outside quoted mode ends it; a font escape in quoted mode stays
\* in the token with its backslash instead of splitting it.
C3_QuotedMode ==
    LET s == tkInput
        k == FirstStop(s)
    IN  (tkPc # "start" /\ ~tkFirst.panic /\ (k = 0 \/ ~IsEsc(s, k)))
        => /\ ~HasChar(tkFirst.token, DQ)
           /\ k = 0 => tkFirst = TokRet(KeptText(s, 1, Len(s)), <<>>)
           /\ k > 0 => tkFirst = TokRet(KeptText(s, 1, k - 1), SliceFrom(s, k + 1))

\* C3's case: a quoted space and a quoted font escape inside one token.
C3_Witness ==
    /\ tkPc # "start"
    /\ ~tkFirst.panic
    /\ \E i, j \in 1..Len(tkInput) :
          /\ tkInput[i] = SP /\ Quoted(tkInput, i)
          /\ IsEsc(tkInput, j) /\ Quoted(tkInput, j)
    /\ HasChar(tkFirst.token, SP)
    /\ HasChar(tkFirst.token, BS)

\* C4: each backslash not followed by 'f' is left out of the token and the
\* character after it is read as usual, wherever the backslash stands
\* (first, middle or last character); the call always returns a pair.
C4_BackslashDropped ==
    LET s == tkInput
        k == FirstStop(s)
        end == IF k = 0 THEN Len(s) ELSE k - 1
    IN  tkPc # "start"
        => /\ ~tkFirst.panic
           /\ ~IsEsc(s, 1) => tkFirst.token = KeptText(s, 1, end)

(***************************************************************************)
(* The merge pass on its own: documents drawn from bounded span sequences, *)
(* merged as main does after parsing (src/unnamed/part_005:126-129), and   *)
(* merged again.                                                           *)
(***************************************************************************)
MaxMergeSpans == 3

MaxMerges == 2

MergeTexts == {<<"a">>, <<"b">>}

MergeTags == {"tagPlain", "tagBold"}

MergeSpanValues ==
    {textSpan(t, x, n) : t \in MergeTags, x \in MergeTexts, n \in BOOLEAN}
        \cup {flagSpan(<<"a">>, TRUE, FALSE)}

listOf(body) == [emptyList EXCEPT !.Items = <<listItem(<<>>, body)>>]

\* The page of TestMerge (src/doc_test.go:47-58).
TestMergePage ==
    [emptyPage EXCEPT !.Sections =
        <<section(<<>>,
            <<textSpan("tagPlain", <<"h", "e", "l", "l", "o">>, FALSE),
              textSpan("tagPlain", <<"w", "o", "r", "l", "d">>, FALSE),
              textSpan("tagPlain", <<"m", "a", "n">>, FALSE),
              textSpan("tagBold", <<"b", "o", "l", "d">>, FALSE)>>)>>]

\* What TestMerge expects (src/doc_test.go:60-63).
TestMergeExpected ==
    <<textSpan("tagPlain",
               <<"h", "e", "l", "l", "o", SP, "w", "o", "r", "l", "d", SP, "m", "a", "n">>,
               FALSE),
      textSpan("tagBold", <<"b", "o", "l", "d">>, FALSE)>>

MergeDocs ==
    LET seqs == StringsUpTo(MergeSpanValues, MaxMergeSpans)
    IN  {[emptyPage EXCEPT !.Sections = <<section(<<"A">>, body)>>] : body \in seqs}
        \cup {[emptyPage EXCEPT !.Sections =
                  <<section(<<"A">>, body), section(<<"B">>, <<listOf(body)>>)>>]
              : body \in seqs}
        \cup {[emptyPage EXCEPT !.Sections =
                  <<section(<<"A">>, <<listOf(body \o <<listOf(body)>>)>> \o body)>>]
              : body \in seqs}
        \cup {TestMergePage}

MergeInit ==
    /\ page \in MergeDocs
    /\ status = "returned"
    /\ merges = 0
    /\ origPage = page
    /\ firstMerge = page
    /\ builder = newBuilder
    /\ hist = <<>>
    /\ TokIdle
    /\ ViewIdle

\* page.mergeSpans() on the page parseMdoc returned.
MergePass ==
    /\ status = "returned"
    /\ merges < MaxMerges
    /\ page' = mergeSpans(page)
    /\ merges' = merges + 1
    /\ origPage' = IF merges = 0 THEN page ELSE origPage
    /\ firstMerge' = IF merges = 0 THEN mergeSpans(page) ELSE firstMerge
    /\ UNCHANGED <<status, builder, hist, tokVars, viewVars>>

MergeNext == MergePass

SpecMerge == MergeInit /\ [][MergeNext]_vars

(***************************************************************************)
(* What the merge claims are stated with.                                  *)
(***************************************************************************)
BothText(a, b) == a.k = "textSpan" /\ b.k = "textSpan"

\* Two adjacent spans that one merged span must replace.
SameRun(a, b) == BothText(a, b) /\ a.Typ = b.Typ /\ a.NoSpace = b.NoSpace

\* Number of maximal runs of spans: a span starts a run unless it continues
\* the run of the span before it.
RunCount(spans) ==
    Cardinality({i \in 1..Len(spans) : i = 1 \/ ~SameRun(spans[i - 1], spans[i])})

RECURSIVE FullyMerged(_)
FullyMerged(spans) ==
    /\ \A i \in 1..(Len(spans) - 1) : ~SameRun(spans[i], spans[i + 1])
    /\ \A i \in 1..Len(spans) :
          spans[i].k = "list"
          => \A j \in 1..Len(spans[i].Items) : FullyMerged(spans[i].Items[j].Contents)

\* What a span sequence says: every character with its tag and NoSpace
\* flag, the separator a span without NoSpace is followed by included, and
\* every other span in its place (a list with what its item bodies say).
RECURSIVE Said(_)
SaidBy(s) ==
    IF s.k = "textSpan"
    THEN [i \in 1..(Len(s.Text) + IF s.NoSpace THEN 0 ELSE 1) |->
             [Typ |-> s.Typ, NoSpace |-> s.NoSpace,
              c |-> IF i <= Len(s.Text) THEN s.Text[i] ELSE SP]]
    ELSE IF s.k = "list"
    THEN <<[s EXCEPT !.Items =
              [j \in 1..Len(s.Items) |->
                  [s.Items[j] EXCEPT !.Contents = Said(s.Items[j].Contents)]]]>>
    ELSE <<s>>

Said(spans) == IF spans = <<>> THEN <<>> ELSE SaidBy(Head(spans)) \o Said(Tail(spans))

\* C5: merge is idempotent: merging an already merged document changes
\* nothing.
C5_MergeIdempotent == merges >= 2 => page = firstMerge

\* C5's case: a second pass over a document whose first pass folded spans,
\* in a section and in a list-item body.
C5_Witness ==
    /\ merges = 2
    /\ Len(origPage.Sections) = 2
    /\ firstMerge.Sections[1] # origPage.Sections[1]
    /\ firstMerge.Sections[2] # origPage.Sections[2]

\* C6: after the merge pass no section and no list-item body has two
\* adjacent text spans with the same tag and the same NoSpace flag; each
\* maximal run of them is one span, its text the run's texts in order
\* joined by one space (by nothing when NoSpace); everything else keeps its
\* order.  TestMerge's page merges to what the test expects.
C6_MergedRuns ==
    merges >= 1
    => /\ Len(firstMerge.Sections) = Len(origPage.Sections)
       /\ \A j \in 1..Len(origPage.Sections) :
             LET in == origPage.Sections[j].Contents
                 out == firstMerge.Sections[j].Contents
             IN  /\ firstMerge.Sections[j].Name = origPage.Sections[j].Name
                 /\ FullyMerged(out)
                 /\ Len(out) = RunCount(in)
                 /\ Said(out) = Said(in)
       /\ origPage = TestMergePage
          => firstMerge.Sections[1].Contents = TestMergeExpected

\* C6's case: the page of TestMerge, merged.
C6_Witness ==
    /\ merges >= 1
    /\ origPage = TestMergePage
    /\ Len(firstMerge.Sections[1].Contents) = 2

(***************************************************************************)
(* The builder on its own: parseMdoc reads one line per step, each drawn   *)
(* from BuildLines, at most MaxLines of them; main then merges the page.   *)
(***************************************************************************)
MaxLines == 5

lineShA == <<".", "S", "h", SP, "A">>
lineShB == <<".", "S", "h", SP, "B">>
lineText == <<"a", SP, "b">>
lineMacro == <<".", "F", "l", SP, "a">>
lineBl == <<".", "B", "l", SP>> \o oBullet
lineIt == <<".", "I", "t">>
lineEl == <<".", "E", "l">>
linePp == <<".", "P", "p">>

BuildLines == {lineShA, lineShB, lineText, lineMacro, lineBl, lineIt, lineEl, linePp}

BuildInit ==
    /\ builder = newBuilder
    /\ hist = <<>>
    /\ page = emptyPage
    /\ status = "parsing"
    /\ merges = 0
    /\ origPage = emptyPage
    /\ firstMerge = emptyPage
    /\ TokIdle
    /\ ViewIdle

\* One iteration of parseMdoc's loop: line read, its case run; a panic
\* ends the parse.
ReadLine(line, kind, after) ==
    /\ status = "parsing"
    /\ Len(hist) < MaxLines
    /\ lineCase(line) = kind
    /\ builder' = after
    /\ hist' = Append(hist, line)
    /\ status' = IF after.panic THEN "panic" ELSE "parsing"
    /\ UNCHANGED <<page, merges, origPage, firstMerge, tokVars, viewVars>>

SectionHeader(line) == ReadLine(line, "Sh", sectionHeader(builder, line))

BeginList(line) == ReadLine(line, "Bl", beginList(builder, line))

ListItem(line) == ReadLine(line, "It", listItemLine(builder, line))

EndList(line) == ReadLine(line, "El", endList(builder, line))

ParagraphBreak(line) == ReadLine(line, "Pp", paragraphBreak(builder, line))

MacroLine(line) == ReadLine(line, "macro", macroLine(builder, line))

TextLine(line) == ReadLine(line, "text", textLine(builder, line))

\* The loop is over: the section in progress is flushed and the page
\* returned to main.  strings.Split yields at least one line.
EndOfInput ==
    /\ status = "parsing"
    /\ Len(hist) >= 1
    /\ builder' = endOfInput(builder)
    /\ status' = IF builder'.panic THEN "panic" ELSE "returned"
    /\ page' = IF builder'.panic THEN page ELSE builder'.page
    /\ UNCHANGED <<hist, merges, origPage, firstMerge, tokVars, viewVars>>

BuildNext ==
    \/ \E line \in BuildLines :
          \/ SectionHeader(line)
          \/ BeginList(line)
          \/ ListItem(line)
          \/ EndList(line)
          \/ ParagraphBreak(line)
          \/ MacroLine(line)
          \/ TextLine(line)
    \/ EndOfInput
    \/ MergePass

SpecBuild == BuildInit /\ [][BuildNext]_vars

(***************************************************************************)
(* Builder claims.                                                         *)
(***************************************************************************)
IsHeader(line) == lineCase(line) = "Sh"

HeaderName(line) == TrimQuotes(SliceFrom(line, 5))

HeadersRead == SelectSeq(hist, IsHeader)

\* A line was read by this step and the parse goes on.
LineRead == status = "parsing" /\ Len(hist') = Len(hist) + 1

LastLine == hist'[Len(hist')]

IsPrefix(s, t) == Len(s) <= Len(t) /\ Slice(t, 1, Len(s)) = s

\* The spans the interpreter yields for the line just read.
LineSpans ==
    CASE lineCase(LastLine) = "text" -> parseLine(builder.p, LastLine).res
      [] lineCase(LastLine) = "macro" -> parseLine(builder.p, SliceFrom(LastLine, 2)).res
      [] lineCase(LastLine) = "Pp" -> <<textSpan("tagPlain", <<NL, NL>>, FALSE)>>
      [] OTHER -> <<>>

TopList(b) == b.lists[Len(b.lists)]

LastItem(l) == l.Items[Len(l.Items)]

\* C7: a section of a text line, a .Pp line and a second text line, parsed
\* and merged, is exactly three spans: the first line's words as one plain
\* span, a plain span of two newlines with NoSpace set, and the second
\* line's words as one plain span.
C7_ParagraphBreakKept ==
    (status = "returned" /\ merges >= 1
       /\ hist = <<lineShA, lineText, linePp, lineText>>)
    => page.Sections[1].Contents =
          << textSpan("tagPlain", lineText, FALSE),
             textSpan("tagPlain", <<NL, NL>>, TRUE),
             textSpan("tagPlain", lineText, FALSE) >>

C8_Returned ==
    status = "returned" =>
        /\ Len(HeadersRead) >= 1
        /\ Len(page.Sections) = Len(HeadersRead)
        /\ \A i \in 1..Len(page.Sections) :
              page.Sections[i].Name = HeaderName(HeadersRead[i])

C8_Step ==
    /\ \* the returned document is the flushed sections and then the one
       \* in progress
       (status = "parsing" /\ status' = "returned")
          => page'.Sections = Append(builder.page.Sections, builder.currentSection)
    /\ \* a flushed section is never touched again
       (status = "parsing" /\ status' # "panic")
          => IsPrefix(builder.page.Sections, builder'.page.Sections)
    /\ \* a header flushes the section in progress and opens the next
       (LineRead /\ status' = "parsing" /\ IsHeader(LastLine))
          => /\ builder'.page.Sections =
                  IF builder.hasSection
                  THEN Append(builder.page.Sections, builder.currentSection)
                  ELSE builder.page.Sections
             /\ builder'.currentSection = section(HeaderName(LastLine), <<>>)
    /\ \* any other line flushes nothing and only extends the section in
       \* progress
       (LineRead /\ status' = "parsing" /\ ~IsHeader(LastLine))
          => /\ builder'.page.Sections = builder.page.Sections
             /\ builder'.currentSection.Name = builder.currentSection.Name
             /\ IsPrefix(builder.currentSection.Contents,
                         builder'.currentSection.Contents)
    /\ \* with no list open the spans of the line go to the section in
       \* progress
       (LineRead /\ status' = "parsing" /\ Len(builder.lists) = 0
          /\ lineCase(LastLine) \in {"text", "macro", "Pp"})
          => builder'.currentSection.Contents =
                 builder.currentSection.Contents \o LineSpans

\* C8: the returned document has one section per header line, in input
\* order, the last being the section in progress at end of input; spans
\* appended while no list is open go to the section of the latest header,
\* and a section is never changed once the next header is read.
C8_SectionsFollowHeaders == []C8_Returned /\ [][C8_Step]_vars

C8_Witness ==
    /\ status = "returned"
    /\ merges = 0
    /\ hist = <<lineShA, lineText, lineShB, lineMacro, linePp>>
    /\ Len(page.Sections) = 2
    /\ Len(page.Sections[1].Contents) = 2
    /\ Len(page.Sections[2].Contents) = 2

\* C9: a content line's spans are appended to the body of the last item
\* of the innermost open list when a list is open, no section changing;
\* otherwise to the current section; with neither a list nor a section the
\* parse aborts.
C9_Step ==
    (LineRead /\ lineCase(LastLine) \in {"text", "macro"})
    => IF Len(builder.lists) > 0
       THEN /\ status' = "parsing"
            /\ Len(TopList(builder).Items) > 0
            /\ Len(builder'.lists) = Len(builder.lists)
            /\ Len(TopList(builder').Items) = Len(TopList(builder).Items)
            /\ LastItem(TopList(builder')).Contents =
                   LastItem(TopList(builder)).Contents \o LineSpans
            /\ builder'.page.Sections = builder.page.Sections
            /\ builder'.currentSection = builder.currentSection
       ELSE IF builder.hasSection
       THEN /\ status' = "parsing"
            /\ builder'.currentSection.Contents =
                   builder.currentSection.Contents \o LineSpans
       ELSE status' = "panic"

C9_ContentRouting == [][C9_Step]_vars

\* Depth of list nesting after the lines of h, or -1 once an end had no
\* begin.
RECURSIVE depthAfter(_, _, _)
depthAfter(h, i, d) ==
    IF d < 0 \/ i > Len(h) THEN d
    ELSE depthAfter(h, i + 1,
            CASE lineCase(h[i]) = "Bl" -> d + 1
              [] lineCase(h[i]) = "El" -> d - 1
              [] OTHER -> d)

Balanced(h) == depthAfter(h, 1, 0) = 0

ListLines(h) == Len(SelectSeq(h, LAMBDA l : lineCase(l) = "Bl"))

RECURSIVE listsIn(_), listsInItems(_)
listsIn(spans) ==
    IF spans = <<>> THEN 0
    ELSE (IF Head(spans).k = "list" THEN 1 + listsInItems(Head(spans).Items) ELSE 0)
         + listsIn(Tail(spans))

listsInItems(items) ==
    IF items = <<>> THEN 0
    ELSE listsIn(Head(items).Contents) + listsInItems(Tail(items))

RECURSIVE listsInSections(_)
listsInSections(secs) ==
    IF secs = <<>> THEN 0
    ELSE listsIn(Head(secs).Contents) + listsInSections(Tail(secs))

C10_Returned ==
    (status = "returned" /\ Balanced(hist))
    => /\ Len(builder.lists) = 0
       /\ listsInSections(page.Sections) = ListLines(hist)

C10_Step ==
    /\ (LineRead /\ lineCase(LastLine) = "Bl")
       => /\ status' = "parsing"
          /\ builder'.lists = Append(builder.lists, TopList(builder'))
          /\ TopList(builder').Items = <<>>
    /\ (LineRead /\ lineCase(LastLine) = "El" /\ Len(builder.lists) > 1)
       => /\ status' = "parsing"
          /\ Len(builder'.lists) = Len(builder.lists) - 1
          /\ Len(TopList(builder').Items) > 0
          /\ LastItem(TopList(builder')).Contents =
                 Append(LastItem(builder.lists[Len(builder.lists) - 1]).Contents,
                        TopList(builder))
    /\ (LineRead /\ lineCase(LastLine) = "El" /\ Len(builder.lists) = 1
          /\ builder.hasSection)
       => /\ status' = "parsing"
          /\ builder'.lists = <<>>
          /\ builder'.currentSection.Contents =
                 Append(builder.currentSection.Contents, TopList(builder))

\* C10: a list-begin pushes a list and a list-end pops the innermost one,
\* which is appended as one span to the last item of the list then on top,
\* or to the current section once the stack is empty; balanced input ends
\* with an empty stack and each list once in the tree.
C10_ListNesting == []C10_Returned /\ [][C10_Step]_vars

(***************************************************************************)
(* List-begin options: documents of a header, one list-begin line built    *)
(* from a kind option, a width part, an offset part and -compact, then     *)
(* item and list-end lines.                                                *)
(***************************************************************************)
dotBl == <<".", "B", "l">>

wDs == <<"D", "s">>

emptyQuoted == <<DQ, DQ>>

KindOptions ==
    {<<>>, <<oBullet>>, <<oEnum>>, <<oTag>>, <<oDiag>>, <<oHang>>, <<oOhang>>, <<oInset>>}

WidthOptions == {<<>>, <<oWidth>>, <<oWidth, wDs>>, <<oWidth, emptyQuoted>>}

OffsetOptions == {<<>>, <<oOffset>>, <<oOffset, oIndent>>}

CompactOptions == {<<>>, <<oCompact>>}

ListBeginLines ==
    { joinWords(<<dotBl>> \o k \o w \o o \o c) :
        k \in KindOptions, w \in WidthOptions, o \in OffsetOptions, c \in CompactOptions }

\* The option words of a list-begin line.
OptionsOf(line) == shlexSplit(SliceFrom(line, 5)).args

SelectsTag(line) ==
    /\ lineCase(line) = "Bl"
    /\ Len(line) >= 4
    /\ listTypeOf(OptionsOf(line)) = "tagList"

RECURSIVE tagWidthsOk(_), tagWidthsOkItems(_)
tagWidthsOk(spans) ==
    \A i \in 1..Len(spans) :
        spans[i].k = "list" =>
            /\ spans[i].Typ = "tagList" => spans[i].Width > 0
            /\ tagWidthsOkItems(spans[i].Items)

tagWidthsOkItems(items) ==
    \A i \in 1..Len(items) : tagWidthsOk(items[i].Contents)

\* C11: a list-begin line selecting the tag kind either aborts the parse
\* at that line or pushes a list whose Width is the length of the word
\* after -width and is positive; no tag list with Width <= 0 is on the
\* stack or in the returned document.
C11_TagWidthPositive ==
    /\ \A i \in 1..Len(builder.lists) :
          builder.lists[i].Typ = "tagList" => builder.lists[i].Width > 0
    /\ \A i \in 1..Len(page.Sections) : tagWidthsOk(page.Sections[i].Contents)
    /\ (Len(hist) >= 1 /\ SelectsTag(hist[Len(hist)]) /\ status # "returned")
       => \/ status = "panic"
          \/ LET args == OptionsOf(hist[Len(hist)])
                 top == builder.lists[Len(builder.lists)]
             IN  /\ Len(builder.lists) >= 1
                 /\ top.Typ = "tagList"
                 /\ Contains(args, oWidth)
                 /\ top.Width = Len(args[Index(args, oWidth) + 1])
                 /\ top.Width > 0

(***************************************************************************)
(* Title and indented-paragraph lines: documents that open with a title    *)
(* line in either syntax, followed by header and .IP lines.                *)
(***************************************************************************)
dotDt == <<".", "D", "t">>

dotTH == <<".", "T", "H">>

dotIP == <<".", "I", "P">>

TitleNames == {<<"l", "s">>, <<"a", "2">>, <<"a", "-", "b">>}

TitleSections == {<<"1">>, <<"1", "2">>, <<"x">>}

titleDate == <<"d">>

dtLine(name, sect) == joinWords(<<dotDt, name, sect>>)

thLine(name, sect) == joinWords(<<dotTH, name, sect, titleDate>>)

TitleLines ==
    {dtLine(n, x) : n \in TitleNames, x \in TitleSections}
        \cup {thLine(n, x) : n \in TitleNames, x \in TitleSections}

ipBare == dotIP

ipLevel == joinWords(<<dotIP, <<"a">>, <<"2">>>>)

ipBadLevel == joinWords(<<dotIP, <<"a">>, <<"x">>>>)

ipBullet == joinWords(<<dotIP, bulletEscape>>)

ipDash == joinWords(<<dotIP, dashEscape, <<"1">>>>)

ParagraphLines == {ipBare, ipLevel, ipBadLevel, ipBullet, ipDash}

MdocTitle(line) == ReadLine(line, "Dt", mdocTitleLine(builder, line))

ManTitle(line) == ReadLine(line, "TH", manTitleLine(builder, line))

IndentedParagraph(line) ==
    ReadLine(line, "IP", indentedParagraph(builder, line, Len(hist)))

TitleNext ==
    \/ \E line \in TitleLines :
          /\ hist = <<>>
          /\ \/ MdocTitle(line)
             \/ ManTitle(line)
             \/ MacroLine(line)
    \/ SectionHeader(lineShA)
    \/ \E line \in ParagraphLines : IndentedParagraph(line)
    \/ EndOfInput

SpecTitle == BuildInit /\ [][TitleNext]_vars

\* C12: for the same name and numeric section, the compact title line and
\* the verbose title line leave the same Name and Section, for every name
\* the verbose form accepts.
C12_TitleFormsAgree ==
    \A n \in TitleNames, x \in TitleSections :
        LET verbose == manTitleLine(newBuilder, thLine(n, x))
        IN  (hist = <<dtLine(n, x)>> /\ Atoi(x).ok /\ ~verbose.panic)
            => /\ status = "parsing"
               /\ builder.page.Name = verbose.page.Name
               /\ builder.page.Section = verbose.page.Section

\* The numeric field of a title or indented-paragraph line that does not
\* parse, or <<>> when the line has none.
BadNumber(line) ==
    IF lineCase(line) = "TH"
    THEN LET parts == shlexSplit(SliceFrom(line, 5)).args
         IN  IF Len(parts) >= 2 /\ ~Atoi(parts[2]).ok THEN parts[2] ELSE <<>>
    ELSE IF lineCase(line) = "IP" /\ Len(line) > 3
    THEN LET first == nextToken(SliceFrom(line, 5))
             arg2 == nextToken(first.rest).token
         IN  IF arg2 # <<>> /\ ~Atoi(arg2).ok THEN arg2 ELSE <<>>
    ELSE <<>>

\* C13: an unparseable numeric field in a title line or an indented
\* paragraph line aborts the parse with an error naming the line's number
\* and quoting the text; nothing is returned.
C13_MalformedNumberNamesLine ==
    (Len(hist) >= 1 /\ BadNumber(hist[Len(hist)]) # <<>>)
    => /\ status = "panic"
       /\ page = emptyPage
       /\ builder.err.lineNo = Len(hist)
       /\ builder.err.text = BadNumber(hist[Len(hist)])

(***************************************************************************)
(* Rendering (render.go).  Styles that only colour or embolden leave the   *)
(* text and its width as they are and are not represented; a style is its  *)
(* width and left margin.  Every rune is one cell wide.                    *)
(***************************************************************************)
Spaces(n) == [i \in 1..n |-> SP]

Max(a, b) == IF a >= b THEN a ELSE b

\* The position of the k-th newline of s; 0 for k = 0 and Len(s) + 1 past
\* the last one.
newlineAt(s, k) ==
    LET at == {i \in 1..Len(s) : s[i] = NL}
    IN  IF k = 0 THEN 0
        ELSE IF k > Cardinality(at) THEN Len(s) + 1
        ELSE CHOOSE p \in at : Cardinality({q \in at : q < p}) = k - 1

\* strings.Split(s, "\n")
Lines(s) ==
    [k \in 1..(Cardinality({i \in 1..Len(s) : s[i] = NL}) + 1) |->
        Slice(s, newlineAt(s, k - 1) + 1, newlineAt(s, k) - 1)]

\* strings.Join(lines, "\n")
RECURSIVE joinLines(_)
joinLines(ls) ==
    IF ls = <<>> THEN <<>>
    ELSE IF Len(ls) = 1 THEN ls[1]
    ELSE ls[1] \o <<NL>> \o joinLines(Tail(ls))

RECURSIVE maxLen(_)
maxLen(ls) == IF ls = <<>> THEN 0 ELSE Max(Len(Head(ls)), maxLen(Tail(ls)))

\* lipgloss.Width: the width of the widest line.
lipglossWidth(s) == maxLen(Lines(s))

padTo(line, n) == line \o Spaces(n - Len(line))

\* lipgloss Style.Render for a style with Width(width) and
\* MarginLeft(margin): lines are padded to the width (0 is no width), the
\* lines of a multi-line text are padded to its widest line, and every
\* line gets the margin.  The texts rendered here are never wider than
\* the width, so no line is wrapped.
styleRender(s, width, margin) ==
    LET ls == Lines(s)
        target == IF Len(ls) = 1 /\ width <= 0 THEN 0 ELSE Max(width, maxLen(ls))
    IN  joinLines([i \in 1..Len(ls) |-> Spaces(margin) \o padTo(ls[i], target)])

\* lipgloss.JoinHorizontal(lipgloss.Top, left, right): each block padded to
\* its width, the shorter block continued with blank lines.
joinHorizontalTop(left, right) ==
    LET l == Lines(left)
        r == Lines(right)
        n == Max(Len(l), Len(r))
        lw == maxLen(l)
        rw == maxLen(r)
    IN  joinLines([i \in 1..n |->
            padTo(IF i <= Len(l) THEN l[i] ELSE <<>>, lw)
                \o padTo(IF i <= Len(r) THEN r[i] ELSE <<>>, rw)])

\* strings.TrimSpace
TrimSpace(s) ==
    LET inked == {i \in 1..Len(s) : s[i] \notin Whitespace}
    IN  IF inked = {} THEN <<>>
        ELSE Slice(s, CHOOSE i \in inked : \A j \in inked : i <= j,
                      CHOOSE i \in inked : \A j \in inked : i >= j)

\* strings.TrimSuffix(s, " ")
TrimSuffixSpace(s) ==
    IF Len(s) > 0 /\ s[Len(s)] = SP THEN Slice(s, 1, Len(s) - 1) ELSE s

\* strings.ReplaceAll(s, "\\&", "")
RECURSIVE unescapeLiterals(_)
unescapeLiterals(s) ==
    IF s = <<>> THEN <<>>
    ELSE IF Len(s) >= 2 /\ s[1] = BS /\ s[2] = "&" THEN unescapeLiterals(SliceFrom(s, 3))
    ELSE <<Head(s)>> \o unescapeLiterals(Tail(s))

\* allWhitespace: `^\s+$`
allWhitespace(s) == Len(s) > 0 /\ \A i \in 1..Len(s) : s[i] \in Whitespace

\* The outcome of a Render call: the text, the table rows built on the
\* way, and whether it panicked.
rendering(out, rows) == [out |-> out, rows |-> rows, panic |-> FALSE]

renderPanic == [out |-> <<>>, rows |-> <<>>, panic |-> TRUE]

\* textSpan.Render (src/render.go:56-76)
textSpanRender(t) ==
    LET text == unescapeLiterals(t.Text)
        res == CASE t.Typ = "tagEnvVar" -> <<"$">> \o text
                 [] t.Typ = "tagSingleQuote" -> <<"'">> \o text \o <<"'">>
                 [] t.Typ = "tagDoubleQuote" -> <<DQ>> \o text \o <<DQ>>
                 [] t.Typ = "tagSubsectionHeader" -> <<NL, NL>> \o text \o <<NL>>
                 [] OTHER -> text
    IN  IF ~t.NoSpace /\ ~allWhitespace(t.Text) THEN res \o <<SP>> ELSE res

\* flagSpan.Render (src/render.go:98-110)
flagSpanRender(f) ==
    LET res == (IF f.Dash THEN <<"-">> ELSE <<>>) \o unescapeLiterals(f.Flag)
    IN  IF ~f.NoSpace THEN res \o <<SP>> ELSE res

leftQuoteRune == "(left quote)"

rightQuoteRune == "(right quote)"

\* decorationStyles (src/render.go:78-84); a kind that is no key of the
\* map has no pair.
decorationStyles ==
    [decorationOptional |-> <<"[", "]">>,
     decorationParens |-> <<"(", ")">>,
     decorationSingleQuote |-> <<"'", "'">>,
     decorationDoubleQuote |-> <<DQ, DQ>>,
     decorationQuotedLiteral |-> <<leftQuoteRune, rightQuoteRune>>]
\* strconv.Itoa for n >= 0
RECURSIVE Itoa(_)
Itoa(n) == IF n < 10 THEN <<DigitChars[n + 1]>> ELSE Itoa(n \div 10) \o <<DigitChars[(n % 10) + 1]>>

\* manRef.Render (src/render.go:112-118)
manRefRender(m) ==
    IF m.HasSection THEN m.Name \o <<"(">> \o Itoa(m.Section) \o <<")">> ELSE m.Name

\* fmt.Sprintf("%2d. ", n)
enumTag(n) == Spaces(2 - Len(Itoa(n))) \o Itoa(n) \o <<".", SP>>

bulletTag == <<bulletRune, SP>>

dashTag == <<"-", SP>>

\* The default tag column (src/render.go:227).
DefaultTagWidth == 8

\* The first switch of list.Render (src/render.go:227-241): the tag column
\* of each kind; a kind with no case panics.
tagColumn(l) ==
    CASE l.Typ \in {"bulletList", "dashList"} -> [panic |-> FALSE, width |-> 2]
      [] l.Typ = "tagList" -> [panic |-> FALSE, width |-> l.Width + 1]
      [] l.Typ = "ohangList" -> [panic |-> FALSE, width |-> 0]
      [] l.Typ = "enumList" -> [panic |-> FALSE, width |-> 4]
      [] l.Typ = "itemList" -> [panic |-> FALSE, width |-> 0]
      [] OTHER -> [panic |-> TRUE, width |-> DefaultTagWidth]

tagTableCellSeparator == "tagTableCellSeparator"

\* A list of the column kind, with its column titles.
columnList(columns, items) ==
    [k |-> "list", Typ |-> "columnList", Items |-> items, Compact |-> FALSE,
     Width |-> 0, Indent |-> 0, Columns |-> columns]

\* The columns of list.RenderTable (src/render.go:295-310): title length
\* plus 3, the last one what is left of the width minus 4.
RECURSIVE sumWidths(_)
sumWidths(columns) ==
    IF columns = <<>> THEN 0 ELSE Head(columns).Width + sumWidths(Tail(columns))

RECURSIVE tableColumns(_, _, _)
tableColumns(titles, width, built) ==
    IF Len(built) = Len(titles) THEN built
    ELSE LET i == Len(built) + 1
             colWidth == IF i = Len(titles) THEN width - sumWidths(built) - 4
                         ELSE Len(titles[i]) + 3
         IN  tableColumns(titles, width,
                 Append(built, [Title |-> titles[i], Width |-> colWidth]))

ellipsisRune == "(ellipsis)"

\* A cell as the table widget shows it: cut to the column width, padded
\* to it, one space on either side.
cellView(cell, width) ==
    LET cut == IF Len(cell) > width
               THEN Slice(cell, 1, width - 1) \o <<ellipsisRune>>
               ELSE cell
    IN  <<SP>> \o padTo(cut, width) \o <<SP>>

RECURSIVE rowView(_, _, _)
rowView(row, columns, i) ==
    IF i > Len(row) THEN <<>>
    ELSE (IF columns[i].Width <= 0 THEN <<>> ELSE cellView(row[i], columns[i].Width))
         \o rowView(row, columns, i + 1)

\* The table widget's view without its header line; it indexes the
\* columns by cell position, so a row longer than the columns panics.
tableView(rows, columns) ==
    IF \E r \in 1..Len(rows) : Len(rows[r]) > Len(columns) THEN renderPanic
    ELSE rendering(<<NL, NL>> \o joinLines([r \in 1..Len(rows) |-> rowView(rows[r], columns, 1)]),
                   rows)

RECURSIVE spanRender(_, _), spansRender(_, _, _), listRender(_, _), itemsRender(_, _, _, _),
          itemTag(_, _, _), RenderTable(_, _), tableRow(_, _, _, _, _), tableRows(_, _, _, _),
          tableRowUnlimited(_, _, _, _, _)

\* decoratedSpan.Render (src/render.go:86-94)
decoratedSpanRender(d, width) ==
    LET inner == spansRender(d.Contents, width, rendering(<<>>, <<>>))
    IN  IF inner.panic \/ d.Typ \notin DOMAIN decorationStyles THEN renderPanic
        ELSE rendering(<<decorationStyles[d.Typ][1]>> \o TrimSuffixSpace(inner.out)
                           \o <<decorationStyles[d.Typ][2], SP>>,
                       inner.rows)

\* Span.Render, by the span's type.
spanRender(span, width) ==
    CASE span.k = "textSpan" -> rendering(textSpanRender(span), <<>>)
      [] span.k = "flagSpan" -> rendering(flagSpanRender(span), <<>>)
      [] span.k = "decoratedSpan" -> decoratedSpanRender(span, width)
      [] span.k = "manRef" -> rendering(manRefRender(span), <<>>)
      [] span.k = "list" -> listRender(span, width)

\* for _, span := range spans { res += span.Render(width) }
spansRender(spans, width, acc) ==
    IF acc.panic \/ spans = <<>> THEN acc
    ELSE LET r == spanRender(Head(spans), width)
         IN  IF r.panic THEN renderPanic
             ELSE spansRender(Tail(spans), width,
                              rendering(acc.out \o r.out, acc.rows \o r.rows))

\* The second switch of list.Render (src/render.go:255-271): the tag of
\* item i (0-based in the source).
itemTag(l, i, width) ==
    CASE l.Typ \in {"tagList", "ohangList"} ->
            LET t == spansRender(l.Items[i].Tag, width, rendering(<<>>, <<>>))
            IN  IF t.panic THEN renderPanic ELSE rendering(TrimSpace(t.out), t.rows)
      [] l.Typ = "bulletList" -> rendering(bulletTag, <<>>)
      [] l.Typ = "dashList" -> rendering(dashTag, <<>>)
      [] l.Typ = "enumList" -> rendering(enumTag(i), <<>>)
      [] l.Typ = "itemList" -> rendering(<<>>, <<>>)
      [] OTHER -> renderPanic

\* The tag and body of an item laid out (src/render.go:277-286).
layoutItem(tag, contents, width, column) ==
    LET filled == styleRender(contents, width - column, 0)
    IN  IF lipglossWidth(tag) > column
        THEN tag \o <<NL>> \o styleRender(filled, 0, column)
        ELSE joinHorizontalTop(styleRender(tag, column, 0), filled)

\* The loop of list.Render over the items from i on (src/render.go:247-287).
itemsRender(l, i, width, acc) ==
    IF acc.panic \/ i > Len(l.Items) THEN acc
    ELSE LET column == tagColumn(l).width
             tag == itemTag(l, i, width)
             body == spansRender(l.Items[i].Contents, width - column, rendering(<<>>, <<>>))
         IN  IF tag.panic \/ body.panic THEN renderPanic
             ELSE itemsRender(l, i + 1, width,
                     rendering(acc.out \o <<NL>> \o (IF l.Compact THEN <<>> ELSE <<NL>>)
                                   \o layoutItem(tag.out, body.out, width, column),
                               acc.rows \o tag.rows \o body.rows))

\* list.Render (src/render.go:221-289)
listRender(l, width) ==
    IF l.Typ = "columnList" THEN RenderTable(l, width)
    ELSE IF tagColumn(l).panic THEN renderPanic
    ELSE LET items == itemsRender(l, 1, width, rendering(<<>>, <<>>))
         IN  IF items.panic THEN renderPanic
             ELSE rendering(styleRender(items.out, 0, l.Indent), items.rows)

\* tableRow without the stop at nCols cells.
tableRowUnlimited(tag, i, row, cell, columns) ==
    IF i > Len(tag)
    THEN rendering(<<>>, IF Len(cell) > 0 THEN Append(row, cell) ELSE row)
    ELSE IF tag[i].k = "textSpan" /\ tag[i].Typ = tagTableCellSeparator
    THEN tableRowUnlimited(tag, i + 1, Append(row, cell), <<>>, columns)
    ELSE LET r == spanRender(tag[i], 0)
         IN  IF r.panic THEN renderPanic
             ELSE tableRowUnlimited(tag, i + 1, row, cell \o r.out, columns)

\* One row of the table (src/render.go:315-330): the cells of an item's
\* tag, cut at the separators, stopping once the row has nCols cells.
tableRow(tag, i, row, cell, columns) ==
    IF i > Len(tag) \/ Len(row) >= Len(columns)
    THEN rendering(<<>>, IF Len(cell) > 0 THEN Append(row, cell) ELSE row)
    ELSE IF tag[i].k = "textSpan" /\ tag[i].Typ = tagTableCellSeparator
    THEN tableRow(tag, i + 1, Append(row, cell), <<>>, columns)
    ELSE LET r == spanRender(tag[i], columns[Len(row) + 1].Width)
         IN  IF r.panic THEN renderPanic
             ELSE tableRow(tag, i + 1, row, cell \o r.out, columns)

tableRows(items, i, columns, rows) ==
    IF i > Len(items) THEN rendering(<<>>, rows)
    ELSE LET r == tableRow(items[i].Tag, 1, <<>>, <<>>, columns)
         IN  IF r.panic THEN renderPanic
             ELSE tableRows(items, i + 1, columns, Append(rows, r.rows))

\* list.RenderTable (src/render.go:291-349)
RenderTable(l, width) ==
    LET columns == tableColumns(l.Columns, width, <<>>)
        rows == tableRows(l.Items, 1, columns, <<>>)
    IN  IF rows.panic THEN renderPanic ELSE tableView(rows.rows, columns)

ruleRune == "(rule)"

RECURSIVE sectionsRender(_, _, _, _)
sectionsRender(sections, i, width, acc) ==
    IF acc.panic \/ i > Len(sections) THEN acc
    ELSE LET body == spansRender(sections[i].Contents, width, rendering(<<>>, <<>>))
             name == sections[i].Name
         IN  IF body.panic THEN renderPanic
             ELSE sectionsRender(sections, i + 1, width,
                     rendering(acc.out \o (IF i # 1 THEN <<NL, NL>> ELSE <<>>)
                                   \o name \o <<NL>> \o Repeat(<<ruleRune>>, Len(name)) \o <<NL>>
                                   \o TrimSpace(body.out),
                               acc.rows \o body.rows))

\* manPage.Render (src/render.go:21-37): each section's name, ruled off,
\* and its contents; then the date under a rule.
pageRender(pg, width) ==
    LET secs == sectionsRender(pg.Sections, 1, width, rendering(<<>>, <<>>))
    IN  IF secs.panic THEN renderPanic
        ELSE rendering(secs.out \o <<NL, NL>> \o Repeat(<<ruleRune>>, Len(pg.Date))
                           \o <<NL>> \o pg.Date \o <<NL, NL>>,
                       secs.rows)

(***************************************************************************)
(* Rendering runs: a page of one section holding one list, rendered whole  *)
(* or through the list's own Render.                                       *)
(***************************************************************************)
finished(r, of, width) ==
    [out |-> r.out, rows |-> r.rows, panic |-> r.panic, done |-> TRUE,
     of |-> of, width |-> width]

RenderWidths == {12, 16}

\* The shell renders the page it was given.
RenderPage ==
    /\ status = "returned"
    /\ ~rendered.done
    /\ \E w \in RenderWidths : rendered' = finished(pageRender(page, w), "page", w)
    /\ UNCHANGED <<docVars, tokVars, ui, interp>>

\* Span.Render on the first span of the first section.
RenderSpan ==
    /\ status = "returned"
    /\ ~rendered.done
    /\ Len(page.Sections) > 0
    /\ Len(page.Sections[1].Contents) > 0
    /\ \E w \in RenderWidths :
          rendered' = finished(spanRender(page.Sections[1].Contents[1], w), "span", w)
    /\ UNCHANGED <<docVars, tokVars, ui, interp>>

\* Documents of a header and one list, parsed and then rendered.
ListNext ==
    \/ SectionHeader(lineShA)
    \/ \E line \in ListBeginLines : hist = <<lineShA>> /\ BeginList(line)
    \/ ListItem(lineIt)
    \/ EndList(lineEl)
    \/ EndOfInput
    \/ RenderPage

SpecList == BuildInit /\ [][ListNext]_vars

MaxColumns == 2

MaxTagSpans == 3

ListKinds ==
    {"bulletList", "dashList", "enumList", "tagList", "diagList", "hangList",
     "ohangList", "insetList", "itemList"}

plainText(text) == textSpan("tagPlain", text, FALSE)

RenderTags == {<<>>, <<plainText(<<"a">>)>>, <<plainText(<<"a", "b", "c">>)>>}

RenderBodies == {<<>>, <<plainText(<<"x">>)>>}

PlainLists ==
    { [emptyList EXCEPT !.Typ = kind,
                        !.Width = IF kind = "tagList" THEN 1 ELSE 0,
                        !.Items = <<listItem(tag, body)>>,
                        !.Compact = compact,
                        !.Indent = indent] :
        kind \in ListKinds, tag \in RenderTags, body \in RenderBodies,
        compact \in BOOLEAN, indent \in {0, OffsetIndent} }

cellSeparator == textSpan(tagTableCellSeparator, <<>>, FALSE)

TableTagSpans == {plainText(<<"a">>), cellSeparator, textSpan("tagPlain", <<>>, TRUE)}

AllTitles == <<<<"c">>, <<"d", "e">>, <<"f">>, <<"g">>>>

TableLists ==
    { columnList(Slice(AllTitles, 1, n), <<listItem(tag, <<>>)>>) :
        n \in 0..MaxColumns, tag \in StringsUpTo(TableTagSpans, MaxTagSpans) }

listPage(l) == [emptyPage EXCEPT !.Sections = <<section(<<"A">>, <<l>>)>>]

RenderDocs == {listPage(l) : l \in PlainLists \cup TableLists}

RenderInit ==
    /\ page \in RenderDocs
    /\ status = "returned"
    /\ merges = 0
    /\ origPage = page
    /\ firstMerge = page
    /\ builder = newBuilder
    /\ hist = <<>>
    /\ TokIdle
    /\ ViewIdle

RenderNext == RenderPage \/ RenderSpan

SpecRender == RenderInit /\ [][RenderNext]_vars

\* The list a rendering run is about.
TheList == page.Sections[1].Contents[1]

\* strings.TrimRight(s, " ")
RTrim(s) ==
    LET inked == {i \in 1..Len(s) : s[i] # SP}
    IN  IF inked = {} THEN <<>>
        ELSE Slice(s, 1, CHOOSE i \in inked : \A j \in inked : i >= j)

\* The tag column the layout rule gives each kind.
ClaimedColumn(l) ==
    CASE l.Typ \in {"bulletList", "dashList"} -> 2
      [] l.Typ = "enumList" -> 4
      [] l.Typ = "tagList" -> l.Width + 1
      [] l.Typ \in {"ohangList", "itemList"} -> 0
      [] OTHER -> DefaultTagWidth

\* The rendered tag of the only item of l.
ClaimedTag(l) ==
    CASE l.Typ = "bulletList" -> bulletTag
      [] l.Typ = "dashList" -> dashTag
      [] l.Typ = "enumList" -> enumTag(1)
      [] l.Typ = "itemList" -> <<>>
      [] OTHER -> TrimSpace(spansRender(l.Items[1].Tag, rendered.width, rendering(<<>>, <<>>)).out)

\* The lines of the only item in the rendered list: the blank lines before
\* it and the list's indent taken off.
ItemLines(l) ==
    LET ls == Lines(rendered.out)
        skip == IF l.Compact THEN 1 ELSE 2
    IN  [i \in 1..(Len(ls) - skip) |-> RTrim(SliceFrom(ls[i + skip], l.Indent + 1))]

\* C14: in a non-column list, a tag wider than the list's tag column is
\* alone on its line and the body begins on a later line; otherwise tag
\* and body start on the same line.
C14_WideTagOwnLine ==
    (rendered.done /\ rendered.of = "span" /\ TheList.Typ # "columnList")
    => /\ ~rendered.panic
       /\ LET l == TheList
              tag == ClaimedTag(l)
              column == ClaimedColumn(l)
              body == spansRender(l.Items[1].Contents, rendered.width - column,
                                  rendering(<<>>, <<>>)).out
              ls == ItemLines(l)
          IN  IF Len(tag) > column
              THEN /\ Len(ls) >= 2
                   /\ ls[1] = RTrim(tag)
                   /\ ls[2] = RTrim(Spaces(column) \o body)
              ELSE /\ Len(ls) >= 1
                   /\ ls[1] = RTrim(padTo(tag, column) \o body)

\* C15: every row built for a column list has at most as many cells as
\* there are declared columns; spans past the last column are dropped and
\* nothing fails.
C15_RowWithinColumns ==
    (rendered.done /\ TheList.Typ = "columnList")
    => /\ ~rendered.panic
       /\ Len(rendered.rows) = Len(TheList.Items)
       /\ \A r \in 1..Len(rendered.rows) :
             Len(rendered.rows[r]) <= Len(TheList.Columns)

C15_Witness ==
    /\ rendered.done
    /\ rendered.of = "page"
    /\ TheList.Typ = "columnList"
    /\ Len(TheList.Columns) = 1
    /\ TheList.Items[1].Tag = <<plainText(<<"a">>), cellSeparator, plainText(<<"a">>)>>
    /\ rendered.rows = << << <<"a", SP>> >> >>

\* C16: rendering a document the builder produced never panics: every
\* list kind a list-begin line can select and every decoration kind the
\* interpreter constructs has a render rule.
C16_BuiltDocumentRenders ==
    (rendered.done /\ rendered.of = "page") => ~rendered.panic

(***************************************************************************)
(* The interactive shell (src/ui.go): model.Update on key and window-size  *)
(* messages, over a page that has been parsed.                             *)
(***************************************************************************)
tocTitle ==
    <<"T", "a", "b", "l", "e", SP, "o", "f", SP, "C", "o", "n", "t", "e", "n", "t", "s">>

\* The entries NewModel gives the navigation list: each section's name and,
\* indented, each subsection header in it (src/ui.go:347-358).
RECURSIVE navItemsOf(_)
navItemsOf(spans) ==
    IF spans = <<>> THEN <<>>
    ELSE LET span == Head(spans)
         IN  (IF span.k = "textSpan" /\ span.Typ = "tagSubsectionHeader"
              THEN << <<SP, SP>> \o (IF Len(span.Text) > 0 /\ span.Text[Len(span.Text)] = ":"
                                     THEN Slice(span.Text, 1, Len(span.Text) - 1)
                                     ELSE span.Text) >>
              ELSE <<>>)
             \o navItemsOf(Tail(spans))

RECURSIVE navItems(_)
navItems(sections) ==
    IF sections = <<>> THEN <<>>
    ELSE <<Head(sections).Name>> \o navItemsOf(Head(sections).Contents)
         \o navItems(Tail(sections))

\* lipgloss.Width(m.sidebarView()): the title with its padding of one cell
\* on either side above the navigation list, inside the panel's margin of
\* one cell on either side (src/ui.go:310-311, 470-481).
sidebarWidth(pg) == Max(Len(tocTitle) + 2, maxLen(navItems(pg.Sections))) + 2

\* lipgloss.Height(m.footerView()): the help (one line, two with every
\* binding shown) over its bottom margin, beside the bordered scroll
\* percentage (src/ui.go:512-524).
footerHeight(m) == Max((IF m.showAll THEN 2 ELSE 1) + 1, 3)

\* One line wrapped at spaces so that no piece holding a space is wider
\* than limit.
RECURSIVE wrapLine(_, _)
wrapLine(line, limit) ==
    IF Len(line) <= limit THEN line
    ELSE LET before == {i \in 1..Len(line) : line[i] = SP /\ i <= limit + 1}
             after == {i \in 1..Len(line) : line[i] = SP /\ i > limit + 1}
         IN  IF before # {}
             THEN LET i == CHOOSE i \in before : \A j \in before : i >= j
                  IN  Slice(line, 1, i - 1) \o <<NL>> \o wrapLine(SliceFrom(line, i + 1), limit)
             ELSE IF after # {}
             THEN LET i == CHOOSE i \in after : \A j \in after : i <= j
                  IN  Slice(line, 1, i - 1) \o <<NL>> \o wrapLine(SliceFrom(line, i + 1), limit)
             ELSE line

\* wordwrap.String(s, limit)
wordwrapString(s, limit) ==
    LET ls == Lines(s)
    IN  joinLines([i \in 1..Len(ls) |-> wrapLine(ls[i], limit)])

\* The branch taken at the first window size (src/ui.go:420-434): the
\* viewport is made and given the page rendered r, wrapped at its width.
newViewport(m, r, width, height) ==
    IF r.panic THEN [m EXCEPT !.quit = TRUE]
    ELSE [m EXCEPT !.viewport = [Width |-> width, Height |-> height,
                                 content |-> wordwrapString(r.out, width)],
                   !.ready = TRUE]

\* The branch taken at every later one (src/ui.go:435-438).
resizeViewport(m, width, height) ==
    [m EXCEPT !.viewport.Width = width, !.viewport.Height = height]

\* What follows either branch (src/ui.go:440-441).
resizePanels(m, height) ==
    [m EXCEPT !.navHeight = height, !.helpWidth = m.windowWidth]

\* case tea.WindowSizeMsg (src/ui.go:411-443)
windowSizeMsg(model, pg, width, height) ==
    LET m == [model EXCEPT !.windowWidth = width, !.windowHeight = height]
        navWidth == sidebarWidth(pg)
        verticalMarginHeight == footerHeight(m) + 4
        contentWidth == m.windowWidth - navWidth
    IN  resizePanels(
            IF ~m.ready
            THEN newViewport(m, pageRender(pg, contentWidth), contentWidth,
                             m.windowHeight - verticalMarginHeight)
            ELSE resizeViewport(m, m.windowWidth - navWidth,
                                m.windowHeight - verticalMarginHeight),
            m.windowHeight - verticalMarginHeight)

WindowSize(width, height) ==
    /\ status = "returned"
    /\ ~ui.quit
    /\ ui' = windowSizeMsg(ui, page, width, height)
    /\ UNCHANGED <<docVars, tokVars, rendered, interp>>

\* case key.Matches(msg, m.keys.Help) (src/ui.go:399-400)
KeyHelp ==
    /\ status = "returned"
    /\ ~ui.quit
    /\ ui' = [ui EXCEPT !.showAll = ~ui.showAll]
    /\ UNCHANGED <<docVars, tokVars, rendered, interp>>

\* case key.Matches(msg, m.keys.Navigate) (src/ui.go:401-406)
KeyNavigate ==
    /\ status = "returned"
    /\ ~ui.quit
    /\ ui' = [ui EXCEPT !.focus = IF ui.focus = "nav" THEN "contents" ELSE "nav"]
    /\ UNCHANGED <<docVars, tokVars, rendered, interp>>

\* case key.Matches(msg, m.keys.Quit) (src/ui.go:407-408)
KeyQuit ==
    /\ status = "returned"
    /\ ~ui.quit
    /\ ui' = [ui EXCEPT !.quit = TRUE]
    /\ UNCHANGED <<docVars, tokVars, rendered, interp>>

WindowWidths == {33, 37}

WindowHeights == {10, 12}

\* Pages of one section holding one list whose lines are filled to the
\* width they are rendered at.
UIDocs ==
    {listPage(l) : l \in {x \in PlainLists :
                            /\ x.Typ \in {"bulletList", "enumList", "tagList"}
                            /\ ~x.Compact
                            /\ x.Indent = 0
                            /\ x.Items[1].Contents # <<>>}}

UIInit ==
    /\ page \in UIDocs
    /\ status = "returned"
    /\ merges = 0
    /\ origPage = page
    /\ firstMerge = page
    /\ builder = newBuilder
    /\ hist = <<>>
    /\ TokIdle
    /\ ViewIdle

UINext ==
    \/ \E width \in WindowWidths, height \in WindowHeights : WindowSize(width, height)
    \/ KeyHelp
    \/ KeyNavigate
    \/ KeyQuit

SpecUI == UIInit /\ [][UINext]_vars

\* C17: once a window size has been received, the viewport holds the page
\* rendered and wrapped at the content width of the latest window size
\* (window width less the sidebar's width).
C17_ResizeRerenders ==
    ui.ready =>
        LET contentWidth == ui.windowWidth - sidebarWidth(page)
        IN  ui.viewport.content
                = wordwrapString(pageRender(page, contentWidth).out, contentWidth)

(***************************************************************************)
(* parseLine step by step: one action per case of the tokenizer loop's     *)
(* switch (src/doc.go:785-964), over lines of a few words.                 *)
(***************************************************************************)
MaxWords == 3

\* One more than the longest text a re-injection adds: a macro name of
\* two characters and a space.
RepeatCost == Len(mFl \o <<SP>>) + 1

Gaps == {1, 2}

fontBoldEscape == <<BS, "f", "B">>

\* Words around the no-space and the enclosure macros.
SpanWords == {mNs, mFl, mOp, mSq, <<"a">>, <<",">>, fontBoldEscape}

\* Words around the alternating macros.
ChainWords == {mBR, mRB, mIR, mRI, <<"a">>, emptyQuoted}

\* Lines around a separator: nothing or a value macro and its payload,
\* the separator, then up to two ordinary words.
SeparatorLists ==
    { before \o <<sep>> \o after :
        before \in {<<>>, <<mFl, <<"a">>>>, <<mAr, <<"a">>>>},
        sep \in Separators,
        after \in {<<>>, <<<<"b">>>>, <<<<"b">>, <<"a">>>>} }

\* Lines with a single-character escape as a word of its own: alone, after
\* a word, or before one.
EscapeLists ==
    UNION { {<<esc>>, <<<<"a">>, esc>>, <<esc, <<"a">>>>} : esc \in CharEscapes }

\* Lines whose separator comes after an alternating macro (after two
\* spaces the macro has no argument and the separator is read as one).
RepeatChainLists == { <<m, sep, <<"b">>>> : m \in AlternatingMacros, sep \in Separators }

InterpWordLists ==
    ((StringsUpTo(SpanWords, MaxWords) \cup StringsUpTo(ChainWords, MaxWords)) \ {<<>>})
        \cup SeparatorLists \cup EscapeLists \cup RepeatChainLists

\* The words with gap spaces between them.
RECURSIVE joinGap(_, _)
joinGap(ws, gap) ==
    IF ws = <<>> THEN <<>>
    ELSE IF Len(ws) = 1 THEN ws[1]
    ELSE ws[1] \o Spaces(gap) \o joinGap(Tail(ws), gap)

InterpInit ==
    /\ DocIdle
    /\ TokIdle
    /\ rendered = notRendered
    /\ ui = newModel
    /\ \E ws \in InterpWordLists, gap \in Gaps :
          interp = [toks |-> ws, gap |-> gap,
                    st |-> loopEntry(joinGap(ws, gap), newParser), last |-> "entry"]

\* The token the loop is at and the rest of the line (src/doc.go:787).
AtToken == nextToken(interp.st.line)

\* One iteration of the loop taking the case named, when the token selects it.
InterpStep(case, selected, after) ==
    /\ ~interp.st.done
    /\ ~interp.st.panic
    /\ ~AtToken.panic
    /\ selected
    /\ interp' = [interp EXCEPT !.st = after, !.last = case]
    /\ UNCHANGED <<docVars, tokVars, rendered, ui>>

NotSpaces == ~(AtToken.token = <<>> /\ Len(AtToken.rest) > 0)

EatSpaces ==
    InterpStep("spaces", ~NotSpaces, [interp.st EXCEPT !.line = AtToken.rest])

ValueMacro ==
    InterpStep("value", NotSpaces /\ AtToken.token \in ValueMacros,
               valueMacro(interp.st, AtToken.token, AtToken.rest))

AlternatingMacro ==
    InterpStep("alternating", NotSpaces /\ AtToken.token \in AlternatingMacros,
               alternatingMacro(interp.st, AtToken.token, AtToken.rest))

NoSpace ==
    InterpStep("Ns", NotSpaces /\ AtToken.token = mNs,
               noSpaceMacro(interp.st, AtToken.rest))

Enclosure ==
    InterpStep("enclosure", NotSpaces /\ AtToken.token \in EnclosureMacros,
               enclosureMacro(interp.st, AtToken.token, AtToken.rest))

FontEscape ==
    InterpStep("font", NotSpaces /\ AtToken.token \in FontEscapes,
               fontEscape(interp.st, AtToken.token, AtToken.rest))

Separator ==
    InterpStep("separator", NotSpaces /\ AtToken.token \in Separators,
               separatorToken(interp.st, AtToken.token, AtToken.rest))

EndOfLine ==
    InterpStep("end", AtToken.token = <<>> /\ AtToken.rest = <<>>,
               [interp.st EXCEPT !.done = TRUE])

OtherToken ==
    InterpStep("other",
               /\ AtToken.token # <<>>
               /\ AtToken.token \notin ValueMacros \cup AlternatingMacros \cup {mNs}
                      \cup EnclosureMacros \cup FontEscapes \cup CharEscapes \cup Separators,
               otherToken(interp.st, AtToken.token, AtToken.rest))

InterpNext ==
    \/ EatSpaces
    \/ ValueMacro
    \/ AlternatingMacro
    \/ NoSpace
    \/ Enclosure
    \/ FontEscape
    \/ Separator
    \/ EndOfLine
    \/ OtherToken

SpecInterp == InterpInit /\ [][InterpNext]_vars

\* The first token of a line once its leading spaces are eaten.
FirstToken(line) == nextToken(SkipSpaces(line)).token

C18_Step ==
    LET st == interp.st
        after == interp'.st
        n == Len(st.res)
    IN  /\ interp'.last = "Ns" =>
              IF n = 0
              THEN after.panic /\ after.res = <<>>
              ELSE /\ ~after.panic
                   /\ Len(after.res) = n
                   /\ \A i \in 1..(n - 1) : after.res[i] = st.res[i]
                   /\ after.res[n] = [st.res[n] EXCEPT !.NoSpace = TRUE]
        /\ (interp'.last = "enclosure" /\ FirstToken(AtToken.rest) = mNs) => after.panic

\* C18: a no-space macro sets NoSpace on the last span emitted, leaves the
\* others as they were and emits none; with no span emitted yet in the line
\* being interpreted, at the top or inside an enclosure, the parse aborts.
C18_NoSpaceOnLastSpan == [][C18_Step]_vars

C18_Witness ==
    /\ interp.toks = <<<<"a">>, <<",">>, mNs>>
    /\ interp.last = "Ns"
    /\ interp.st.res = <<textSpan("tagPlain", <<"a">>, FALSE), textSpan("tagPlain", <<",">>, TRUE)>>

C19_State ==
    \A i \in 1..Len(interp.st.res) :
        interp.st.res[i].k = "decoratedSpan" => (i = Len(interp.st.res) /\ interp.st.done)

C19_Step ==
    interp'.last = "enclosure" =>
        LET st == interp.st
            after == interp'.st
            inner == parseLine(st.p, AtToken.rest)
        IN  IF inner.panic THEN after.panic
            ELSE /\ after.done
                 /\ ~after.panic
                 /\ after.res = Append(st.res, decoratedSpan(decorationOf(AtToken.token), inner.res))

\* C19: an enclosure macro taken by the loop ends the line: the spans end
\* with one group of the macro's kind holding the interpretation of all
\* that followed the macro, enclosures among it nested inside, and no
\* group is ever followed by another span.
C19_EnclosureTakesRest == []C19_State /\ [][C19_Step]_vars

C19_Witness ==
    /\ interp.toks = <<mOp, mSq, <<"a">>>>
    /\ interp.last = "enclosure"
    /\ interp.st.res =
          <<decoratedSpan("decorationOptional",
                <<decoratedSpan("decorationSingleQuote",
                      <<textSpan("tagPlain", <<"a">>, FALSE)>>)>>)>>

\* The style of the i-th argument of an alternating macro.
chainStyle(macro, i) ==
    LET first == CASE macro = mBR -> "tagBold"
                   [] macro = mRB -> "tagPlain"
                   [] macro = mIR -> "tagItalic"
                   [] macro = mRI -> "tagPlain"
        second == CASE macro = mBR -> "tagPlain"
                    [] macro = mRB -> "tagBold"
                    [] macro = mIR -> "tagPlain"
                    [] macro = mRI -> "tagItalic"
    IN  IF i % 2 = 1 THEN first ELSE second

\* The line is an alternating macro and arguments that are not empty.
IsChain(ws) ==
    /\ Len(ws) >= 1
    /\ ws[1] \in AlternatingMacros
    /\ \A i \in 2..Len(ws) : ws[i] \in ChainWords \ {emptyQuoted}

C20_Done ==
    (interp.st.done /\ IsChain(interp.toks)) =>
        /\ ~interp.st.panic
        /\ interp.st.res =
              [i \in 1..(Len(interp.toks) - 1) |->
                  textSpan(chainStyle(interp.toks[1], i), interp.toks[i + 1], FALSE)]

C20_Step ==
    (interp'.last = "alternating" /\ nextToken(AtToken.rest).token = <<>>)
        => interp'.st.res = interp.st.res

\* C20: a line of an alternating macro and n arguments, none empty, yields
\* n text spans, the arguments in order, styled in turn from the macro's
\* first style; an empty argument emits nothing.
C20_AlternatingChain == []C20_Done /\ [][C20_Step]_vars

C21_Step ==
    LET st == interp.st
        after == interp'.st
    IN  /\ interp'.last = "separator" =>
              /\ after.res = Append(st.res, textSpan("tagPlain", AtToken.token, FALSE))
              /\ after.repeatMacro
              /\ after.lastMacro = st.lastMacro
        /\ (interp'.last = "other" /\ st.repeatMacro) =>
              /\ ~after.repeatMacro
              /\ after.res = st.res
              /\ after.line = st.lastMacro \o <<SP>> \o st.line
        /\ (interp'.last = "other" /\ ~st.repeatMacro) =>
              /\ ~after.repeatMacro
              /\ after.res = Append(st.res, textSpan(fontTag(st.p.currentFont), AtToken.token, FALSE))

\* What a line of SeparatorLists is to yield: lead, the macro's span;
\* tail, the separator, the next word as the macro's payload (as text when
\* there is no macro) and a further word as text.
separatorExpected(ws) ==
    LET macro == IF ws[1] \in Separators THEN <<>> ELSE ws[1]
        at == IF macro = <<>> THEN 1 ELSE 3
        sep == <<textSpan("tagPlain", ws[at], FALSE)>>
        next == IF Len(ws) < at + 1 THEN <<>>
                ELSE IF macro = <<>> THEN <<textSpan("tagPlain", ws[at + 1], FALSE)>>
                ELSE <<valueSpan(macro, ws[at + 1])>>
        further == IF Len(ws) < at + 2 THEN <<>>
                   ELSE <<textSpan("tagPlain", ws[at + 2], FALSE)>>
    IN  [lead |-> IF macro = <<>> THEN <<>> ELSE <<valueSpan(macro, ws[2])>>,
         tail |-> sep \o next \o further]

C21_Done ==
    (interp.st.done /\ interp.toks \in SeparatorLists) =>
        LET expected == separatorExpected(interp.toks)
            res == interp.st.res
        IN  /\ ~interp.st.panic
            /\ Len(res) >= Len(expected.tail)
            /\ SubSeq(res, Len(res) - Len(expected.tail) + 1, Len(res)) = expected.tail
            /\ interp.gap = 1 => res = expected.lead \o expected.tail

\* C21: a separator is emitted as a plain span and arms the repeat flag;
\* the next ordinary token is re-read as the payload of the last macro of
\* the line and the flag is disarmed, so a further ordinary token is text;
\* with no macro seen the token is emitted as text once.
C21_SeparatorRepeatsMacro == []C21_Done /\ [][C21_Step]_vars

C21_Witness ==
    /\ interp.toks = <<mFl, <<"a">>, <<",">>, <<"b">>, <<"a">>>>
    /\ interp.st.done
    /\ interp.st.res =
          <<flagSpan(<<"a">>, TRUE, FALSE), textSpan("tagPlain", <<",">>, FALSE),
            flagSpan(<<"b">>, TRUE, FALSE), textSpan("tagPlain", <<"a">>, FALSE)>>

\* The span claimed for a word of an escape line.
escapeSpan(w) ==
    IF w \in CharEscapes
    THEN textSpan("tagPlain", <<w[2]>>, TRUE)
    ELSE textSpan("tagPlain", w, FALSE)

\* C23: a recognized single-character escape standing as a word of its own
\* produces exactly one plain span holding that character with NoSpace set,
\* and has no other effect on the line's spans or on the parser.
C23_CharEscapeSpan ==
    (interp.toks \in EscapeLists /\ interp.st.done) =>
        /\ ~interp.st.panic
        /\ interp.st.res = [i \in 1..Len(interp.toks) |-> escapeSpan(interp.toks[i])]
        /\ interp.st.p = newParser
        /\ ~interp.st.repeatMacro

\* The separator characters left on the line.
separatorsLeft(line) == Cardinality({i \in 1..Len(line) : <<line[i]>> \in Separators})

\* What the loop has left to do: the characters of the line, the
\* separators among them counted again for the re-injection each may
\* cause, and the re-injection that is pending.  A re-injection puts at
\* most a macro name of two characters and a space before the line.
workLeft(st) ==
    Len(st.line) + RepeatCost * separatorsLeft(st.line)
        + (IF st.repeatMacro THEN RepeatCost ELSE 0)

\* A loop that has not ended reads its next token, so one case of the
\* switch is taken.
C27_NextIteration == interp.st.done \/ interp.st.panic \/ ~AtToken.panic

C27_Step ==
    \/ interp'.st.done
    \/ interp'.st.panic
    \/ workLeft(interp'.st) < workLeft(interp.st)

\* C27: the interpreter terminates on every line: every iteration of its
\* loop ends the loop or leaves less to do (workLeft is a natural number
\* and decreases), the iterations that put text back before the line
\* included (an alternating macro's opposite name, the repeat rule's last
\* macro name, empty when no macro was seen).
C27_Terminates == []C27_NextIteration /\ [][C27_Step]_vars

\* The repeat rule has just put its empty prefix and a space before the line.
C27_Witness ==
    /\ interp.toks = <<<<",">>, <<"b">>>>
    /\ interp.last = "other"
    /\ interp.st.lastMacro = <<>>
    /\ interp.st.line = <<SP, "b">>
    /\ ~interp.st.repeatMacro
    /\ ~interp.st.done

(***************************************************************************)
(* The font register across the lines of a parse: a header, then content   *)
(* lines of font escapes and words.                                        *)
(***************************************************************************)
fontItalicEscape == <<BS, "f", "I">>

fontRomanEscape == <<BS, "f", "R">>

fontPreviousEscape == <<BS, "f", "P">>

dotOp == <<".", "O", "p">>

FontTextWords ==
    {<<fontBoldEscape>>, <<fontItalicEscape, <<"a">>>>, <<fontRomanEscape>>,
     <<fontPreviousEscape, <<"a">>>>, <<<<"a">>>>}

FontMacroWords == {<<dotOp, fontBoldEscape, <<"a">>>>}

FontTextLines == {joinWords(ws) : ws \in FontTextWords}

FontMacroLines == {joinWords(ws) : ws \in FontMacroWords}

FontNext ==
    \/ hist = <<>> /\ SectionHeader(lineShA)
    \/ \E line \in FontTextLines : TextLine(line)
    \/ \E line \in FontMacroLines : MacroLine(line)
    \/ EndOfInput

SpecFont == BuildInit /\ [][FontNext]_vars

\* The words a line of this specification was made of.
wordsOf(line) == CHOOSE ws \in FontTextWords \cup FontMacroWords : joinWords(ws) = line

\* The register after an escape, as the roff escapes are described: B, I
\* and R save the current font and set it; P takes the saved one back.
registerAfter(p, w) ==
    CASE w = fontBoldEscape -> [lastFont |-> p.currentFont, currentFont |-> "fontBold"]
      [] w = fontItalicEscape -> [lastFont |-> p.currentFont, currentFont |-> "fontItalic"]
      [] w = fontRomanEscape -> [lastFont |-> p.currentFont, currentFont |-> "fontPlain"]
      [] w = fontPreviousEscape -> [lastFont |-> p.lastFont, currentFont |-> p.lastFont]

tagOfFont(font) ==
    CASE font = "fontBold" -> "tagBold"
      [] font = "fontItalic" -> "tagItalic"
      [] font = "fontPlain" -> "tagPlain"

\* The register and the spans after the words ws, from register p.
RECURSIVE fontWalk(_, _, _)
fontWalk(p, ws, spans) ==
    IF ws = <<>> THEN [p |-> p, res |-> spans]
    ELSE IF Head(ws) \in FontEscapes
    THEN fontWalk(registerAfter(p, Head(ws)), Tail(ws), spans)
    ELSE fontWalk(p, Tail(ws), Append(spans, textSpan(tagOfFont(p.currentFont), Head(ws), FALSE)))

\* The same for the lines of h from the i-th on; an enclosure line's words
\* become the children of its group.
RECURSIVE fontWalkLines(_, _, _, _)
fontWalkLines(h, i, p, spans) ==
    IF i > Len(h) THEN [p |-> p, res |-> spans]
    ELSE LET ws == wordsOf(h[i])
         IN  IF ws[1] = dotOp
             THEN LET inner == fontWalk(p, Tail(ws), <<>>)
                  IN  fontWalkLines(h, i + 1, inner.p,
                          Append(spans, decoratedSpan("decorationOptional", inner.res)))
             ELSE LET line == fontWalk(p, ws, <<>>)
                  IN  fontWalkLines(h, i + 1, line.p, spans \o line.res)

\* C22: the bold, italic and roman escapes save the current font and set
\* it, the restore escape sets the current font to the saved one, none of
\* them emits a span, every ordinary token is emitted in the current font,
\* and the register carries over from line to line and into an
\* enclosure's children.
C22_FontRegister ==
    (status = "parsing" /\ Len(hist) >= 1) =>
        LET walk == fontWalkLines(hist, 2, newParser, <<>>)
        IN  /\ builder.p = walk.p
            /\ builder.currentSection.Contents = walk.res

C22_Witness ==
    /\ status = "parsing"
    /\ hist = <<lineShA, joinWords(<<fontBoldEscape>>),
                joinWords(<<fontItalicEscape, <<"a">>>>),
                joinWords(<<fontPreviousEscape, <<"a">>>>),
                joinWords(<<dotOp, fontBoldEscape, <<"a">>>>)>>
    /\ builder.p = [lastFont |-> "fontBold", currentFont |-> "fontBold"]
    /\ builder.currentSection.Contents =
          <<textSpan("tagItalic", <<"a">>, FALSE), textSpan("tagBold", <<"a">>, FALSE),
            decoratedSpan("decorationOptional", <<textSpan("tagBold", <<"a">>, FALSE)>>)>>

\* The text claimed for the span of an indented-paragraph line.
paragraphText(line) ==
    CASE line = ipBare -> <<NL>>
      [] line = ipLevel -> <<NL, SP, SP, SP, SP, "a">>
      [] line = ipBullet -> <<NL, bulletRune>>
      [] line = ipDash -> <<NL, SP, SP, dashRune>>

C26_Step ==
    (LineRead /\ LastLine \in {ipBare, ipLevel, ipBullet, ipDash} /\ builder.hasSection)
    => /\ ~builder'.panic
       /\ builder'.currentSection.Contents =
              Append(builder.currentSection.Contents,
                     textSpan("tagPlain", paragraphText(LastLine), FALSE))

\* C26: an indented-paragraph line whose first argument is the bullet
\* escape (the em-dash escape) appends one plain span of a newline, two
\* spaces per indent level and the bullet (em-dash) glyph; any other first
\* argument is the tag as written, and a missing level is level 0.
C26_ParagraphTag == [][C26_Step]_vars

(***************************************************************************)
(* Page-name and cross-reference lines: headers, a list and its items,     *)
(* full-form and bare .Nm lines, .Xr lines with and without a section;     *)
(* the first span of the returned page is then rendered.                   *)
(***************************************************************************)
dotNm == <<".", "N", "m">>

dotXr == <<".", "X", "r">>

lineShSynopsis == <<".", "S", "h", SP>> \o synopsisName

lineNm == dotNm

NameFullLines == {joinWords(<<dotNm, <<"n">>>>), joinWords(<<dotNm, <<"m">>, <<"x">>>>)}

xrSection == joinWords(<<dotXr, <<"l">>, <<"1">>>>)

xrBare == joinWords(<<dotXr, <<"l">>>>)

CrossReferenceLines == {xrSection, xrBare}

NameFull(line) == ReadLine(line, "NmFull", nameFullLine(builder, line))

NameBare(line) == ReadLine(line, "Nm", nameBareLine(builder))

CrossReference(line) == ReadLine(line, "Xr", crossReference(builder, line))

RefsNext ==
    \/ \E line \in {lineShA, lineShSynopsis} : SectionHeader(line)
    \/ BeginList(lineBl)
    \/ ListItem(lineIt)
    \/ \E line \in NameFullLines : NameFull(line)
    \/ NameBare(lineNm)
    \/ \E line \in CrossReferenceLines : CrossReference(line)
    \/ EndOfInput
    \/ RenderSpan

SpecRefs == BuildInit /\ [][RefsNext]_vars

\* The spans of the place content lines are appended to.
Target(b) ==
    IF Len(b.lists) > 0 THEN LastItem(TopList(b)).Contents
    ELSE b.currentSection.Contents

\* The name a full-form page-name line of NameFullLines gives.
NameGiven(line) == <<line[5]>>

lineBreakSpan == textSpan("tagPlain", <<NL>>, TRUE)

C24_Step ==
    /\ (LineRead /\ LastLine \in NameFullLines /\ ~builder'.panic)
          => builder'.savedName =
                 IF builder.savedName = <<>> THEN NameGiven(LastLine)
                 ELSE builder.savedName
    /\ (LineRead /\ LastLine \notin NameFullLines)
          => (builder'.panic \/ builder'.savedName = builder.savedName)
    /\ (LineRead /\ LastLine = lineNm /\ builder.savedName # <<>>)
          => /\ ~builder'.panic
             /\ Target(builder') = Target(builder) \o
                   (IF builder.hasSection /\ builder.currentSection.Name = synopsisName
                    THEN <<lineBreakSpan>> ELSE <<>>)
                   \o <<textSpan("tagNameRef", builder.savedName, FALSE)>>

\* C24: the name of the first full-form page-name line is cached and no
\* later line replaces it; every bare page-name line after it appends a
\* name-reference span with the cached name, preceded by a line-break span
\* (a newline, NoSpace set) when the current section is SYNOPSIS.
C24_PageNameCached == [][C24_Step]_vars

C25_Step ==
    (LineRead /\ LastLine \in CrossReferenceLines
       /\ builder.hasSection /\ Len(builder.lists) = 0)
    => /\ ~builder'.panic
       /\ builder'.currentSection.Contents =
              Append(builder.currentSection.Contents,
                     IF LastLine = xrSection
                     THEN manRef(<<"l">>, TRUE, 1)
                     ELSE manRef(<<"l">>, FALSE, 0))

C25_Rendered ==
    (rendered.done /\ ~rendered.panic /\ page.Sections[1].Contents[1].k = "manRef")
    => rendered.out =
          IF page.Sections[1].Contents[1].HasSection
          THEN <<"l", "(", "1", ")">> ELSE <<"l">>

\* C25: a cross-reference line appends exactly one CrossReference span with
\* the name and, when a numeric section follows, that section; without a
\* section the span carries the name alone, rendered as the bare name, and
\* the parse continues.
C25_CrossReference == []C25_Rendered /\ [][C25_Step]_vars

(***************************************************************************)
(* Lists left open and list lines with no list open: headers, text, list   *)
(* begins, items and ends in any order, then the end of the input.         *)
(***************************************************************************)
OpenNext ==
    \/ \E line \in {lineShA, lineShB} : SectionHeader(line)
    \/ TextLine(lineText)
    \/ BeginList(lineBl)
    \/ ListItem(lineIt)
    \/ EndList(lineEl)
    \/ EndOfInput

SpecOpen == BuildInit /\ [][OpenNext]_vars

\* One iteration of parseMdoc's loop on line (src/doc.go:991-1188), for
\* the lines of this specification.
readLine(b, line) ==
    CASE lineCase(line) = "Sh" -> sectionHeader(b, line)
      [] lineCase(line) = "Bl" -> beginList(b, line)
      [] lineCase(line) = "It" -> listItemLine(b, line)
      [] lineCase(line) = "El" -> endList(b, line)
      [] lineCase(line) = "text" -> textLine(b, line)

RECURSIVE readLines(_, _, _)
readLines(b, h, i) ==
    IF b.panic \/ i > Len(h) THEN b ELSE readLines(readLine(b, h[i]), h, i + 1)

\* The list-begin line of the outermost list that is never ended.
openAt(h) ==
    CHOOSE i \in 1..Len(h) :
        /\ lineCase(h[i]) = "Bl"
        /\ \A j \in i..Len(h) : depthAfter(SubSeq(h, i, j), 1, 0) >= 1
        /\ \A k \in 1..(i - 1) :
              ~(/\ lineCase(h[k]) = "Bl"
                /\ \A j \in k..Len(h) : depthAfter(SubSeq(h, k, j), 1, 0) >= 1)

\* The input without its open list: the lines before it and the headers
\* after it.
withoutOpenList(h) ==
    SubSeq(h, 1, openAt(h) - 1) \o SelectSeq(SubSeq(h, openAt(h) + 1, Len(h)), IsHeader)

\* C28: when the input ends while a list is open, that list and the spans
\* routed into its items are absent from the returned document, whose
\* sections hold only what was appended while no list was open: the
\* document is that of the input without the open list.
C28_OpenListDropped ==
    (status = "returned" /\ Len(builder.lists) > 0) =>
        /\ listsInSections(page.Sections) = ListLines(SubSeq(hist, 1, openAt(hist) - 1))
        /\ page.Sections =
              flushSection(readLines(newBuilder, withoutOpenList(hist), 1)).page.Sections

C28_Witness ==
    /\ status = "returned"
    /\ hist = <<lineShA, lineText, lineBl, lineIt, lineText>>
    /\ Len(builder.lists) = 1
    /\ builder.lists[1].Items[1].Contents = <<textSpan("tagPlain", <<"a">>, FALSE),
                                              textSpan("tagPlain", <<"b">>, FALSE)>>
    /\ page.Sections = <<section(<<"A">>, <<textSpan("tagPlain", <<"a">>, FALSE),
                                           textSpan("tagPlain", <<"b">>, FALSE)>>)>>

\* The lines that are neither a header nor content.
PreambleCases == {"comment", "Dd", "Dt", "TH", "blank"}

C29_Step ==
    (/\ status = "parsing"
     /\ status' # "parsing"
     /\ hist' = hist
     /\ \A i \in 1..Len(hist) : lineCase(hist[i]) \in PreambleCases)
    => /\ status' = "returned"
       /\ page'.Sections = <<>>

\* C29: an input with no section header and no content line (only comment,
\* date, title and blank lines) is parsed to the end and gives a document
\* with an empty section list.
C29_PreambleOnly == [][C29_Step]_vars

C30_Step ==
    (LineRead /\ lineCase(LastLine) \in {"It", "El"} /\ Len(builder.lists) = 0)
    => /\ status' = "panic"
       /\ builder'.page = builder.page
       /\ builder'.hasSection = builder.hasSection
       /\ builder'.currentSection = builder.currentSection
       /\ builder'.lists = <<>>
       /\ page' = page

\* An aborted parse returns no document and reads no further line.
C30_Aborted == status = "panic" => (page = emptyPage /\ builder.panic)

\* C30: a list-item or list-end line read while the list stack is empty
\* aborts the parse; it appends no span to a section, leaves the document
\* as it was and the stack empty.
C30_UnbalancedAborts == []C30_Aborted /\ [][C30_Step]_vars

C30_Witness ==
    /\ status = "panic"
    /\ hist = <<lineShA, lineText, lineEl>>
    /\ builder.lists = <<>>
    /\ builder.currentSection.Contents = <<textSpan("tagPlain", <<"a">>, FALSE),
                                           textSpan("tagPlain", <<"b">>, FALSE)>>
    /\ page = emptyPage

====
